---------------------------- MODULE Spec2Model ----------------------------
(***************************************************************************)
(* klippyNFC: the NDEF URI codec and the Type-2 memory codec of the tag    *)
(* reader/writer (src/klippy_nfc.py, class KlippyNFC) and the Type-4 tag   *)
(* emulator with its background emulation thread (src/klippynfc.py, class  *)
(* NFCEmulator).                                                           *)
(*                                                                         *)
(* Byte strings are sequences of 0..255, indexed from 1 here and from 0 in *)
(* the source: At and Slice take the source's 0-based indices.  Text       *)
(* strings are sequences of Unicode code points.  A Python Optional is a   *)
(* sequence of length 0 (None) or 1.                                       *)
(***************************************************************************)
EXTENDS Integers, Sequences, FiniteSets, TLC

VARIABLES
    \* ---- reader/writer codec (src/klippy_nfc.py) ----
    url,              \* Optional text: the URL handed to _build_ndef_uri_record
    ndef_in,          \* Optional bytes: the NDEF message handed to _build_type2_memory
    rec,              \* Optional result of _build_ndef_uri_record(url)
    dec,              \* Optional result of _parse_ndef_uri_record(rec bytes)
    mem,              \* Optional result of _build_type2_memory(ndef_in)
    memdec,           \* Optional result of _parse_type2_memory(mem.cc, mem.tlv)
    reads,            \* the single-byte index reads the parsers made: buffer,
                      \* index and the length of the buffer
    walk,             \* Optional: the TLV loop of _parse_type2_memory taken
                      \* turn by turn: its cursor (offset), ndef_data, the
                      \* number of turns taken, and whether it is still looping
    \* ---- emulator (src/klippynfc.py) ----
    klippy,           \* host lifecycle: "starting", "ready", "disconnected"
    mainPc,           \* position of the host (reactor) thread inside a handler
    nfc,              \* self.nfc: None or the PN532 object
    emulation_thread, \* self.emulation_thread: 0 (None) or a thread id
    running,          \* self.running
    current_url,      \* self.current_url: Optional text
    error_count,      \* self.error_count
    thr,              \* per emulation thread: position, locals, the
                      \* command/response pairs of the activation it serves,
                      \* and the length of the run of failures that the
                      \* failure it is handling completed (seen)
    failRun,          \* failed iterations since the last successful interaction
    \* ---- reader/writer tag operations (src/klippy_nfc.py) ----
    tag,              \* bytes stored on the tag in the field, from page 3 on
    op,               \* Optional: the last operation called, with its arguments
    ret,              \* Optional: what that operation returned
    io                \* the transport page writes and reads that operation issued

codecVars == <<url, ndef_in, rec, dec, mem, memdec, reads, walk>>
emuVars == <<klippy, mainPc, nfc, emulation_thread, running, current_url,
             error_count, thr, failRun>>
tagVars == <<tag, op, ret, io>>
vars == <<url, ndef_in, rec, dec, mem, memdec, reads, walk, klippy, mainPc, nfc,
          emulation_thread, running, current_url, error_count, thr, failRun,
          tag, op, ret, io>>

-----------------------------------------------------------------------------
(* Python values *)

None == <<>>
Some(x) == <<x>>

Min(a, b) == IF a < b THEN a ELSE b

\* b[i] with the source's 0-based index
At(b, i) == b[i + 1]

\* b[lo:hi] of Python for 0 <= lo: the slice is clamped to the buffer
Slice(b, lo, hi) ==
    IF lo >= Min(hi, Len(b)) THEN <<>> ELSE SubSeq(b, lo + 1, Min(hi, Len(b)))

Fill(n, b) == [i \in 1..n |-> b]

\* s.startswith(p)
StartsWith(s, p) == Len(s) >= Len(p) /\ SubSeq(s, 1, Len(p)) = p

-----------------------------------------------------------------------------
(* UTF-8: str.encode('utf-8') and bytes.decode('utf-8') *)

IsSurrogate(c) == c >= 55296 /\ c <= 57343

\* the bytes of one code point
Utf8Char(c) ==
    IF c < 128 THEN <<c>>
    ELSE IF c < 2048 THEN <<192 + (c \div 64), 128 + (c % 64)>>
    ELSE IF c < 65536
         THEN <<224 + (c \div 4096), 128 + ((c \div 64) % 64), 128 + (c % 64)>>
    ELSE <<240 + (c \div 262144), 128 + ((c \div 4096) % 64),
           128 + ((c \div 64) % 64), 128 + (c % 64)>>

\* the bytes of the code points s[lo..hi], halving the range
RECURSIVE Utf8Range(_, _, _)
Utf8Range(s, lo, hi) ==
    IF lo > hi THEN <<>>
    ELSE IF lo = hi THEN Utf8Char(s[lo])
    ELSE LET mid == (lo + hi) \div 2
         IN Utf8Range(s, lo, mid) \o Utf8Range(s, mid + 1, hi)

\* s.encode('utf-8'); every code point used is encodable (no lone surrogate)
Utf8Encode(s) == Utf8Range(s, 1, Len(s))

IsCont(b) == b >= 128 /\ b < 192

\* number of bytes the lead byte b0 announces, 0 for a byte that cannot lead
Utf8Need(b0) ==
    IF b0 < 128 THEN 1
    ELSE IF b0 >= 194 /\ b0 < 224 THEN 2
    ELSE IF b0 >= 224 /\ b0 < 240 THEN 3
    ELSE IF b0 >= 240 /\ b0 < 245 THEN 4
    ELSE 0

\* the code point of the n-byte form at 0-based position i
Utf8Point(b, i, n) ==
    IF n = 1 THEN At(b, i)
    ELSE IF n = 2 THEN (At(b, i) - 192) * 64 + (At(b, i + 1) - 128)
    ELSE IF n = 3
         THEN (At(b, i) - 224) * 4096 + (At(b, i + 1) - 128) * 64
              + (At(b, i + 2) - 128)
    ELSE (At(b, i) - 240) * 262144 + (At(b, i + 1) - 128) * 4096
         + (At(b, i + 2) - 128) * 64 + (At(b, i + 3) - 128)

\* the form at position i is well formed: announced length inside the buffer,
\* continuation bytes only, the next form starting right after it, no overlong
\* form, no surrogate, nothing above U+10FFFF
Utf8FormOk(b, i) ==
    LET n == Utf8Need(At(b, i))
    IN /\ n # 0 /\ i + n <= Len(b)
       /\ \A k \in 1..(n - 1) : IsCont(At(b, i + k))
       /\ (i + n < Len(b) => ~IsCont(At(b, i + n)))
       /\ LET c == Utf8Point(b, i, n)
          IN /\ ~(n = 3 /\ (c < 2048 \/ IsSurrogate(c)))
             /\ ~(n = 4 /\ (c < 65536 \/ c > 1114111))

\* b.decode('utf-8'): the text, or None where Python raises UnicodeDecodeError.
\* A form starts at every byte that is not a continuation byte.
Utf8Decode(b) ==
    LET starts == {i \in 0..(Len(b) - 1) : ~IsCont(At(b, i))}
        rank(i) == Cardinality({j \in starts : j <= i})
    IN IF Len(b) > 0 /\ 0 \notin starts THEN None
       ELSE IF \E i \in starts : ~Utf8FormOk(b, i) THEN None
       ELSE Some([k \in 1..Cardinality(starts) |->
                    LET i == CHOOSE j \in starts : rank(j) = k
                    IN Utf8Point(b, i, Utf8Need(At(b, i)))])

-----------------------------------------------------------------------------
(* NDEF URI record: KlippyNFC._build_ndef_uri_record / _parse_ndef_uri_record *)

\* 'http://www.', 'https://www.', 'http://', 'https://' as code points
HttpWww == <<104, 116, 116, 112, 58, 47, 47, 119, 119, 119, 46>>
HttpsWww == <<104, 116, 116, 112, 115, 58, 47, 47, 119, 119, 119, 46>>
Http == <<104, 116, 116, 112, 58, 47, 47>>
Https == <<104, 116, 116, 112, 115, 58, 47, 47>>

\* a prefix table that lists the short prefixes first
uri_prefixesShortFirst ==
    << <<Http, 3>>, <<Https, 4>>, <<HttpWww, 1>>, <<HttpsWww, 2>> >>

\* the builder's prefix table in dict (insertion) order: <<prefix, code>>
uri_prefixes == << <<HttpWww, 1>>, <<HttpsWww, 2>>, <<Http, 3>>, <<Https, 4>> >>

\* index of the first table entry the URL starts with, 0 when there is none
FirstPrefix(u) ==
    LET hits == {k \in 1..Len(uri_prefixes) : StartsWith(u, uri_prefixes[k][1])}
    IN IF hits = {} THEN 0 ELSE CHOOSE k \in hits : \A j \in hits : k <= j

uri_code_of(u) == IF FirstPrefix(u) = 0 THEN 0 ELSE uri_prefixes[FirstPrefix(u)][2]

uri_data_of(u) ==
    IF FirstPrefix(u) = 0 THEN u
    ELSE SubSeq(u, Len(uri_prefixes[FirstPrefix(u)][1]) + 1, Len(u))

\* a builder that keeps the low 8 bits of the payload length
_build_ndef_uri_recordWraps(u) ==
    LET uri_bytes == Utf8Encode(uri_data_of(u))
        payload_length == 1 + Len(uri_bytes)
    IN [raised |-> FALSE,
        bytes |-> <<209, 1, payload_length % 256, 85, uri_code_of(u)>>
                  \o uri_bytes]

\* _build_ndef_uri_record(url): the record, or raised when bytearray() refuses
\* a payload length above 255 (ValueError: byte must be in range(0, 256))
_build_ndef_uri_record(u) ==
    LET uri_bytes == Utf8Encode(uri_data_of(u))
        payload_length == 1 + Len(uri_bytes)
    IN IF payload_length > 255
       THEN [raised |-> TRUE, bytes |-> <<>>]
       ELSE [raised |-> FALSE,
             bytes |-> <<209, 1, payload_length, 85, uri_code_of(u)>> \o uri_bytes]

\* the parser's prefix table
PrefixOfCode(code) ==
    IF code = 1 THEN HttpWww
    ELSE IF code = 2 THEN HttpsWww
    ELSE IF code = 3 THEN Http
    ELSE IF code = 4 THEN Https
    ELSE <<>>

\* the length the parser requires of a record that declares payload_length
NdefRequiredLen(payload_length) == 5 + payload_length

\* _parse_ndef_uri_record(ndef_bytes) -> (success, url)
_parse_ndef_uri_record(ndef_bytes) ==
    LET fail == [success |-> FALSE, url |-> None] IN
    IF Len(ndef_bytes) < 5 THEN fail
    ELSE
      LET tnf_flags == At(ndef_bytes, 0)
          payload_length == At(ndef_bytes, 2)
          record_type == At(ndef_bytes, 3)
      IN IF tnf_flags % 8 # 1 THEN fail
         ELSE IF record_type # 85 THEN fail
         ELSE IF Len(ndef_bytes) < NdefRequiredLen(payload_length) THEN fail
         ELSE
           LET uri_code == At(ndef_bytes, 4)
               uri_data == Utf8Decode(Slice(ndef_bytes, 5, 5 + payload_length - 1))
           IN IF uri_data = None THEN fail
              ELSE [success |-> TRUE,
                    url |-> Some(PrefixOfCode(uri_code) \o uri_data[1])]

-----------------------------------------------------------------------------
(* Type-2 memory image: KlippyNFC._build_type2_memory / _parse_type2_memory *)

\* the builder's length encoding with the 1-byte form up to 255 included
TlvLengthOffByOne(n) ==
    IF n <= 255 THEN <<n>> ELSE <<255, (n \div 256) % 256, n % 256>>

\* length byte(s) of the NDEF Message TLV: 1 byte below 255, else 0xFF and the
\* two low-order bytes of the length
TlvLength(n) ==
    IF n < 255 THEN <<n>> ELSE <<255, (n \div 256) % 256, n % 256>>

\* a builder that leaves out the padding to the page boundary
_build_type2_memoryUnpadded(ndef_data) ==
    [cc_bytes |-> <<225, 16, 18, 0>>,
     tlv_bytes |-> <<3>> \o TlvLength(Len(ndef_data)) \o ndef_data \o <<254>>]

\* _build_type2_memory(ndef_data) -> (cc_bytes, tlv_bytes)
_build_type2_memory(ndef_data) ==
    LET body == <<3>> \o TlvLength(Len(ndef_data)) \o ndef_data \o <<254>>
        pad == (4 - (Len(body) % 4)) % 4
    IN [cc_bytes |-> <<225, 16, 18, 0>>, tlv_bytes |-> body \o Fill(pad, 0)]

\* the metadata dictionary built from the Capability Container
CcMetadata(cc_bytes) ==
    [magic |-> At(cc_bytes, 0),
     version_major |-> (At(cc_bytes, 1) \div 16) % 16,
     version_minor |-> At(cc_bytes, 1) % 16,
     memory_size |-> At(cc_bytes, 2) * 8,
     read_access |-> (At(cc_bytes, 3) \div 16) % 16,
     write_access |-> At(cc_bytes, 3) % 16]

\* taking the value with a slice alone, which Python clamps to the buffer
TlvExtractClamps(tlv_bytes, offset, ndef_length) ==
    Some(Slice(tlv_bytes, offset, offset + ndef_length))

\* the NDEF Message TLV value of declared length ndef_length at offset, or None
\* when it runs past the buffer
TlvExtract(tlv_bytes, offset, ndef_length) ==
    IF offset + ndef_length > Len(tlv_bytes) THEN None
    ELSE Some(Slice(tlv_bytes, offset, offset + ndef_length))

\* "if tlv_type == 0x00: continue", turn after turn: the offset of the first
\* byte at or after offset that is not 0x00, or the end of the buffer
AfterNulls(tlv_bytes, offset) ==
    CHOOSE o \in offset..Len(tlv_bytes) :
        /\ o = Len(tlv_bytes) \/ At(tlv_bytes, o) # 0
        /\ \A i \in offset..(o - 1) : At(tlv_bytes, i) = 0

\* the while loop that steps over an unknown block by 1 plus its length byte,
\* as if the length byte were not part of the block
RECURSIVE TlvWalkSkipsShort(_, _)
TlvWalkSkipsShort(tlv_bytes, offset) ==
    IF offset >= Len(tlv_bytes) THEN None
    ELSE
      LET tlv_type == At(tlv_bytes, offset)
          o1 == offset + 1
      IN IF tlv_type = 254 THEN None
         ELSE IF tlv_type = 0 THEN TlvWalkSkipsShort(tlv_bytes, o1)
         ELSE IF tlv_type = 3
         THEN IF o1 >= Len(tlv_bytes) THEN None
              ELSE LET length_byte == At(tlv_bytes, o1)
                       o2 == o1 + 1
                   IN IF length_byte = 255
                      THEN IF o2 + 2 > Len(tlv_bytes) THEN None
                           ELSE TlvExtract(tlv_bytes, o2 + 2,
                                    At(tlv_bytes, o2) * 256 + At(tlv_bytes, o2 + 1))
                      ELSE TlvExtract(tlv_bytes, o2, length_byte)
         ELSE IF o1 < Len(tlv_bytes)
              THEN TlvWalkSkipsShort(tlv_bytes, o1 + At(tlv_bytes, o1))
              ELSE TlvWalkSkipsShort(tlv_bytes, o1)

\* the while loop over the TLV blocks from offset: the NDEF message, or None
\* when the walk fails or ends without one
RECURSIVE TlvWalk(_, _)
TlvWalk(tlv_bytes, offset) ==
    IF offset >= Len(tlv_bytes) THEN None
    ELSE
      LET tlv_type == At(tlv_bytes, offset)
          o1 == offset + 1
      IN IF tlv_type = 254 THEN None
         ELSE IF tlv_type = 0 THEN TlvWalk(tlv_bytes, AfterNulls(tlv_bytes, o1))
         ELSE IF tlv_type = 3
         THEN IF o1 >= Len(tlv_bytes) THEN None
              ELSE LET length_byte == At(tlv_bytes, o1)
                       o2 == o1 + 1
                   IN IF length_byte = 255
                      THEN IF o2 + 2 > Len(tlv_bytes) THEN None
                           ELSE TlvExtract(tlv_bytes, o2 + 2,
                                    At(tlv_bytes, o2) * 256 + At(tlv_bytes, o2 + 1))
                      ELSE TlvExtract(tlv_bytes, o2, length_byte)
         ELSE IF o1 < Len(tlv_bytes)
              THEN TlvWalk(tlv_bytes, o1 + 1 + At(tlv_bytes, o1))
              ELSE TlvWalk(tlv_bytes, o1)

\* a parser that refuses a Capability Container whose version is not 1.0
_parse_type2_memoryStrictVersion(cc_bytes, tlv_bytes) ==
    IF Len(cc_bytes) < 4
    THEN [success |-> FALSE, ndef_data |-> None, metadata |-> None]
    ELSE IF At(cc_bytes, 0) # 225 \/ At(cc_bytes, 1) # 16
    THEN [success |-> FALSE, ndef_data |-> None, metadata |-> None]
    ELSE IF Len(tlv_bytes) < 2
    THEN [success |-> FALSE, ndef_data |-> None,
          metadata |-> Some(CcMetadata(cc_bytes))]
    ELSE LET ndef_data == TlvWalk(tlv_bytes, 0)
         IN [success |-> ndef_data # None, ndef_data |-> ndef_data,
             metadata |-> Some(CcMetadata(cc_bytes))]

\* _parse_type2_memory(cc_bytes, tlv_bytes) -> (success, ndef_data, metadata)
_parse_type2_memory(cc_bytes, tlv_bytes) ==
    IF Len(cc_bytes) < 4
    THEN [success |-> FALSE, ndef_data |-> None, metadata |-> None]
    ELSE IF At(cc_bytes, 0) # 225
    THEN [success |-> FALSE, ndef_data |-> None, metadata |-> None]
    ELSE IF Len(tlv_bytes) < 2
    THEN [success |-> FALSE, ndef_data |-> None,
          metadata |-> Some(CcMetadata(cc_bytes))]
    ELSE LET ndef_data == TlvWalk(tlv_bytes, 0)
         IN [success |-> ndef_data # None, ndef_data |-> ndef_data,
             metadata |-> Some(CcMetadata(cc_bytes))]

-----------------------------------------------------------------------------
(* The single-byte index reads of the parsers, in the order the code makes   *)
(* them. A slice is not an index read: Python clamps it to the buffer.       *)

IndexRead(buf, i, b) == [buf |-> buf, index |-> i, len |-> Len(b)]

\* ndef_bytes[0..3], and ndef_bytes[4] once the length checks passed
NdefReads(ndef_bytes) ==
    IF Len(ndef_bytes) < 5 THEN <<>>
    ELSE
      [i \in 1..4 |-> IndexRead("ndef_bytes", i - 1, ndef_bytes)]
      \o (IF At(ndef_bytes, 0) % 8 # 1 THEN <<>>
          ELSE IF At(ndef_bytes, 3) # 85 THEN <<>>
          ELSE IF Len(ndef_bytes) < NdefRequiredLen(At(ndef_bytes, 2)) THEN <<>>
          ELSE <<IndexRead("ndef_bytes", 4, ndef_bytes)>>)

\* the while loop over the TLV blocks that reads the two bytes of a 3-byte
\* length without asking whether they are there
RECURSIVE TlvReadsNoEscapeGuard(_, _)
TlvReadsNoEscapeGuard(tlv_bytes, offset) ==
    IF offset >= Len(tlv_bytes) THEN <<>>
    ELSE
      LET tlv_type == At(tlv_bytes, offset)
          o1 == offset + 1
      IN <<IndexRead("tlv_bytes", offset, tlv_bytes)>> \o
         (IF tlv_type = 254 THEN <<>>
          ELSE IF tlv_type = 0 THEN TlvReadsNoEscapeGuard(tlv_bytes, o1)
          ELSE IF tlv_type = 3
          THEN IF o1 >= Len(tlv_bytes) THEN <<>>
               ELSE <<IndexRead("tlv_bytes", o1, tlv_bytes)>> \o
                    (IF At(tlv_bytes, o1) = 255
                     THEN <<IndexRead("tlv_bytes", o1 + 1, tlv_bytes),
                            IndexRead("tlv_bytes", o1 + 2, tlv_bytes)>>
                     ELSE <<>>)
          ELSE IF o1 < Len(tlv_bytes)
               THEN <<IndexRead("tlv_bytes", o1, tlv_bytes)>> \o
                    TlvReadsNoEscapeGuard(tlv_bytes, o1 + 1 + At(tlv_bytes, o1))
               ELSE TlvReadsNoEscapeGuard(tlv_bytes, o1))

\* the index reads of the while loop over the TLV blocks from offset
RECURSIVE TlvReads(_, _)
TlvReads(tlv_bytes, offset) ==
    IF offset >= Len(tlv_bytes) THEN <<>>
    ELSE
      LET tlv_type == At(tlv_bytes, offset)
          o1 == offset + 1
      IN <<IndexRead("tlv_bytes", offset, tlv_bytes)>> \o
         (IF tlv_type = 254 THEN <<>>
          ELSE IF tlv_type = 0 THEN TlvReads(tlv_bytes, o1)
          ELSE IF tlv_type = 3
          THEN IF o1 >= Len(tlv_bytes) THEN <<>>
               ELSE <<IndexRead("tlv_bytes", o1, tlv_bytes)>> \o
                    (IF At(tlv_bytes, o1) = 255
                     THEN IF o1 + 1 + 2 > Len(tlv_bytes) THEN <<>>
                          ELSE <<IndexRead("tlv_bytes", o1 + 1, tlv_bytes),
                                 IndexRead("tlv_bytes", o1 + 2, tlv_bytes)>>
                     ELSE <<>>)
          ELSE IF o1 < Len(tlv_bytes)
               THEN <<IndexRead("tlv_bytes", o1, tlv_bytes)>> \o
                    TlvReads(tlv_bytes, o1 + 1 + At(tlv_bytes, o1))
               ELSE TlvReads(tlv_bytes, o1))

\* cc_bytes[0..3], then the TLV loop
MemoryReads(cc_bytes, tlv_bytes) ==
    IF Len(cc_bytes) < 4 THEN <<>>
    ELSE
      [i \in 1..4 |-> IndexRead("cc_bytes", i - 1, cc_bytes)]
      \o (IF At(cc_bytes, 0) # 225 THEN <<>>
          ELSE IF Len(tlv_bytes) < 2 THEN <<>>
          ELSE TlvReads(tlv_bytes, 0))

\* the NDEF Message TLV the loop reaches from offset: where its value starts
\* and the length its length field declares; None when the loop reaches none
\* or its length field is cut short
RECURSIVE TlvDeclared(_, _)
TlvDeclared(tlv_bytes, offset) ==
    IF offset >= Len(tlv_bytes) THEN None
    ELSE
      LET tlv_type == At(tlv_bytes, offset)
          o1 == offset + 1
      IN IF tlv_type = 254 THEN None
         ELSE IF tlv_type = 0 THEN TlvDeclared(tlv_bytes, o1)
         ELSE IF tlv_type = 3
         THEN IF o1 >= Len(tlv_bytes) THEN None
              ELSE IF At(tlv_bytes, o1) = 255
              THEN IF o1 + 1 + 2 > Len(tlv_bytes) THEN None
                   ELSE Some([start |-> o1 + 3,
                              length |-> At(tlv_bytes, o1 + 1) * 256
                                         + At(tlv_bytes, o1 + 2)])
              ELSE Some([start |-> o1 + 1, length |-> At(tlv_bytes, o1)])
         ELSE IF o1 < Len(tlv_bytes)
              THEN TlvDeclared(tlv_bytes, o1 + 1 + At(tlv_bytes, o1))
              ELSE TlvDeclared(tlv_bytes, o1)

-----------------------------------------------------------------------------
(* Inputs of the codec *)

\* longest suffix enumerated letter by letter
MaxSuffixLen == 2

\* 'a', '.', and the two-byte 'e acute'
SuffixAlphabet == {97, 46, 233}

SeqsUpTo(S, n) == UNION {[1..k -> S] : k \in 0..n}

\* suffixes whose payload length is 255 (the short-record ceiling) and 256
LongSuffixes == {Fill(n, 97) : n \in {254, 255}}

\* 'ftp://' has no entry in the prefix table
Ftp == <<102, 116, 112, 58, 47, 47>>

UrlHeads == {HttpWww, HttpsWww, Http, Https, Ftp, <<>>}

Urls == {h \o s : h \in UrlHeads,
                  s \in SeqsUpTo(SuffixAlphabet, MaxSuffixLen) \cup LongSuffixes}

\* NDEF lengths on both sides of the 1-byte / 3-byte length forms
TlvLens == {0, 1, 2, 254, 255, 256, 300}

\* NDEF lengths on both sides of the largest value of the 2-byte length field
WideLens == {65535, 65536}

\* fill bytes: null tag, NDEF tag, terminator, 0xFF, an NDEF header byte
FillBytes == {0, 3, 254, 255, 209}

RawNdefs == {Fill(n, b) : n \in TlvLens, b \in FillBytes}
                \cup {Fill(n, 209) : n \in WideLens}

-----------------------------------------------------------------------------
(* The codec applied to its inputs *)

EmuIdle ==
    /\ klippy = "starting" /\ mainPc = "idle" /\ nfc = None
    /\ emulation_thread = 0 /\ running = FALSE /\ current_url = None
    /\ error_count = 0 /\ thr = <<>> /\ failRun = 0

\* no tag operation has been called
TagIdle == tag = <<>> /\ op = <<>> /\ ret = <<>> /\ io = <<>>

Init ==
    /\ \/ url \in {Some(u) : u \in Urls} /\ ndef_in = None
       \/ url = None /\ ndef_in \in {Some(d) : d \in RawNdefs}
    /\ rec = None /\ dec = None /\ mem = None /\ memdec = None
    /\ reads = <<>> /\ walk = None
    /\ EmuIdle
    /\ TagIdle

BuildNdef ==
    /\ url # None /\ rec = None
    /\ rec' = Some(_build_ndef_uri_record(url[1]))
    /\ ndef_in' = IF rec'[1].raised THEN None ELSE Some(rec'[1].bytes)
    /\ UNCHANGED <<url, dec, mem, memdec, reads, walk>>
    /\ UNCHANGED emuVars
    /\ UNCHANGED tagVars

ParseNdef ==
    /\ rec # None /\ ~rec[1].raised /\ dec = None
    /\ dec' = Some(_parse_ndef_uri_record(rec[1].bytes))
    /\ reads' = reads \o NdefReads(rec[1].bytes)
    /\ UNCHANGED <<url, ndef_in, rec, mem, memdec, walk>>
    /\ UNCHANGED emuVars
    /\ UNCHANGED tagVars

BuildMemory ==
    /\ ndef_in # None /\ mem = None
    /\ mem' = Some(_build_type2_memory(ndef_in[1]))
    /\ UNCHANGED <<url, ndef_in, rec, dec, memdec, reads, walk>>
    /\ UNCHANGED emuVars
    /\ UNCHANGED tagVars

ParseMemory ==
    /\ mem # None /\ memdec = None
    /\ memdec' = Some(_parse_type2_memory(mem[1].cc_bytes, mem[1].tlv_bytes))
    /\ reads' = reads \o MemoryReads(mem[1].cc_bytes, mem[1].tlv_bytes)
    /\ UNCHANGED <<url, ndef_in, rec, dec, mem, walk>>
    /\ UNCHANGED emuVars
    /\ UNCHANGED tagVars

Next == BuildNdef \/ ParseNdef \/ BuildMemory \/ ParseMemory

Spec == Init /\ [][Next]_vars

-----------------------------------------------------------------------------
(* The parsers applied to truncated and garbage input *)

\* longest buffer enumerated byte by byte
MaxRawLen == 5

\* longest buffer given to a parser
MaxBufferLen == 20

\* null TLV / zero length, a length of 1, NDEF TLV / a length of 3, 'U',
\* the record header byte, the terminator, and the 3-byte length escape
RawAlphabet == {0, 1, 3, 85, 209, 254, 255}

\* a 20-byte NDEF record for 'http://aaaaaaaaaaaaaa' with one more byte, and a
\* 20-byte TLV region holding such a record for 'http://aaaaaaaa'
LongNdef == <<209, 1, 15, 85, 3>> \o Fill(14, 97) \o <<0>>
LongTlv == <<3, 14, 209, 1, 9, 85, 3>> \o Fill(8, 97) \o <<0, 254, 0, 0, 0>>

Truncations(b) == {SubSeq(b, 1, k) : k \in 0..Len(b)}

\* two null TLVs, an unknown block with 2 value bytes, a null TLV, an unknown
\* block with no value, then an NDEF Message TLV of 3 bytes and the terminator
SkippingTlv == <<0, 0, 85, 2, 7, 7, 0, 1, 0, 3, 3, 209, 1, 0, 254>>

\* truncations of the three, and longer runs of one byte
LongBuffers ==
    Truncations(LongNdef) \cup Truncations(LongTlv) \cup Truncations(SkippingTlv)
    \cup {Fill(n, b) : n \in (MaxRawLen + 1)..MaxBufferLen, b \in RawAlphabet}

\* Capability Containers with every version byte, and with other first bytes
CcInputs ==
    {<<225, v, s, a>> : v \in 0..255, s \in {0, 18}, a \in {0, 15}}
    \cup {<<m, v, 18, 0>> : m \in {0, 1, 224, 226, 255}, v \in {0, 16, 255}}

\* a TLV region with an empty NDEF message
EmptyMessageTlv == <<3, 0, 254, 0>>

\* a buffer given as the NDEF message, as the TLV region after the CC the
\* builder writes, or as the CC
DecodeInput(b) ==
    \/ ndef_in = Some(b) /\ mem = None
    \/ /\ ndef_in = None
       /\ mem = Some([cc_bytes |-> <<225, 16, 18, 0>>, tlv_bytes |-> b])
    \/ /\ ndef_in = None
       /\ mem = Some([cc_bytes |-> b, tlv_bytes |-> EmptyMessageTlv])

InitDecode ==
    /\ url = None /\ rec = None /\ dec = None /\ memdec = None
    /\ reads = <<>> /\ walk = None
    /\ \/ \E k \in 0..MaxRawLen : \E b \in [1..k -> RawAlphabet] : DecodeInput(b)
       \/ \E b \in LongBuffers \cup CcInputs : DecodeInput(b)
    /\ EmuIdle
    /\ TagIdle

\* _parse_ndef_uri_record called on the bytes as they are
DecodeNdef ==
    /\ ndef_in # None /\ rec = None /\ dec = None
    /\ dec' = Some(_parse_ndef_uri_record(ndef_in[1]))
    /\ reads' = reads \o NdefReads(ndef_in[1])
    /\ UNCHANGED <<url, ndef_in, rec, mem, memdec, walk>>
    /\ UNCHANGED emuVars
    /\ UNCHANGED tagVars

SpecDecode == InitDecode /\ [][DecodeNdef \/ BuildMemory \/ ParseMemory]_vars

-----------------------------------------------------------------------------
(* The TLV loop of _parse_type2_memory, one turn at a time *)

\* a turn that sets the cursor to 1 + skip_length for an unknown block instead
\* of adding it
TlvTurnSkipAbsolute(tlv_bytes, offset) ==
    LET tlv_type == At(tlv_bytes, offset)
        o1 == offset + 1
    IN IF tlv_type = 254
       THEN [offset |-> o1, ndef_data |-> None, next |-> "break"]
       ELSE IF tlv_type = 0
       THEN [offset |-> o1, ndef_data |-> None, next |-> "loop"]
       ELSE IF tlv_type = 3
       THEN IF o1 >= Len(tlv_bytes)
            THEN [offset |-> o1, ndef_data |-> None, next |-> "return"]
            ELSE
              LET length_byte == At(tlv_bytes, o1)
                  o2 == o1 + 1
                  truncated == length_byte = 255 /\ o2 + 2 > Len(tlv_bytes)
                  ndef_length ==
                      IF length_byte = 255
                      THEN At(tlv_bytes, o2) * 256 + At(tlv_bytes, o2 + 1)
                      ELSE length_byte
                  o3 == IF length_byte = 255 THEN o2 + 2 ELSE o2
              IN IF truncated
                 THEN [offset |-> o2, ndef_data |-> None, next |-> "return"]
                 ELSE IF o3 + ndef_length > Len(tlv_bytes)
                 THEN [offset |-> o3, ndef_data |-> None, next |-> "return"]
                 ELSE [offset |-> o3 + ndef_length,
                       ndef_data |-> Some(Slice(tlv_bytes, o3, o3 + ndef_length)),
                       next |-> "break"]
       ELSE [offset |-> IF o1 < Len(tlv_bytes)
                        THEN 1 + At(tlv_bytes, o1) ELSE o1,
             ndef_data |-> None, next |-> "loop"]

\* one turn of "while offset < len(tlv_bytes)" entered with the cursor at
\* offset: the cursor and ndef_data it leaves, and how it ends: "loop" (back
\* to the while test), "break", or "return" (a failure returned from inside)
TlvTurn(tlv_bytes, offset) ==
    LET tlv_type == At(tlv_bytes, offset)
        o1 == offset + 1
    IN IF tlv_type = 254
       THEN [offset |-> o1, ndef_data |-> None, next |-> "break"]
       ELSE IF tlv_type = 0
       THEN [offset |-> o1, ndef_data |-> None, next |-> "loop"]
       ELSE IF tlv_type = 3
       THEN IF o1 >= Len(tlv_bytes)
            THEN [offset |-> o1, ndef_data |-> None, next |-> "return"]
            ELSE
              LET length_byte == At(tlv_bytes, o1)
                  o2 == o1 + 1
                  truncated == length_byte = 255 /\ o2 + 2 > Len(tlv_bytes)
                  ndef_length ==
                      IF length_byte = 255
                      THEN At(tlv_bytes, o2) * 256 + At(tlv_bytes, o2 + 1)
                      ELSE length_byte
                  o3 == IF length_byte = 255 THEN o2 + 2 ELSE o2
              IN IF truncated
                 THEN [offset |-> o2, ndef_data |-> None, next |-> "return"]
                 ELSE IF o3 + ndef_length > Len(tlv_bytes)
                 THEN [offset |-> o3, ndef_data |-> None, next |-> "return"]
                 ELSE [offset |-> o3 + ndef_length,
                       ndef_data |-> Some(Slice(tlv_bytes, o3, o3 + ndef_length)),
                       next |-> "break"]
       ELSE [offset |-> IF o1 < Len(tlv_bytes)
                        THEN o1 + 1 + At(tlv_bytes, o1) ELSE o1,
             ndef_data |-> None, next |-> "loop"]

\* _parse_type2_memory has accepted the Capability Container the writer
\* writes and a TLV region of at least 2 bytes, and is about to enter the loop
\* with offset = 0 and ndef_data = None
InitWalk ==
    /\ url = None /\ ndef_in = None /\ rec = None /\ dec = None
    /\ memdec = None /\ reads = <<>>
    /\ \/ \E k \in 2..MaxRawLen : \E b \in [1..k -> RawAlphabet] :
             mem = Some([cc_bytes |-> <<225, 16, 18, 0>>, tlv_bytes |-> b])
       \/ \E b \in {x \in LongBuffers : Len(x) >= 2} :
             mem = Some([cc_bytes |-> <<225, 16, 18, 0>>, tlv_bytes |-> b])
    /\ walk = Some([offset |-> 0, ndef_data |-> None, turns |-> 0,
                    looping |-> TRUE])
    /\ EmuIdle
    /\ TagIdle

\* the while test and, when it passes, one turn of the loop; when the loop is
\* left, what the function returns
WalkTurn ==
    /\ walk # None /\ walk[1].looping
    /\ LET tlv_bytes == mem[1].tlv_bytes
           metadata == Some(CcMetadata(mem[1].cc_bytes))
           failure == [success |-> FALSE, ndef_data |-> None,
                       metadata |-> metadata]
           after(ndef_data) ==
               IF ndef_data = None THEN failure
               ELSE [success |-> TRUE, ndef_data |-> ndef_data,
                     metadata |-> metadata]
           turn == TlvTurn(tlv_bytes, walk[1].offset)
       IN IF ~(walk[1].offset < Len(tlv_bytes))
          THEN /\ walk' = Some([walk[1] EXCEPT !.looping = FALSE])
               /\ memdec' = Some(after(walk[1].ndef_data))
          ELSE /\ walk' = Some([offset |-> turn.offset,
                                ndef_data |-> turn.ndef_data,
                                turns |-> walk[1].turns + 1,
                                looping |-> turn.next = "loop"])
               /\ memdec' = IF turn.next = "loop" THEN memdec
                            ELSE IF turn.next = "return" THEN Some(failure)
                            ELSE Some(after(turn.ndef_data))
    /\ UNCHANGED <<url, ndef_in, rec, dec, mem, reads>>
    /\ UNCHANGED emuVars
    /\ UNCHANGED tagVars

\* the parser runs on its own: a turn that can be taken is taken
SpecWalk == InitWalk /\ [][WalkTurn]_vars /\ WF_vars(WalkTurn)

-----------------------------------------------------------------------------
(* Claims about the codec *)

\* C1 (as stated): for every URL that starts with one of the four known
\* prefixes and whose payload length is at most 255 (the builder returned a
\* record), parsing the built record reports success and returns the URL.
C1_NdefUriRoundTrip ==
    (dec # None /\ FirstPrefix(url[1]) # 0)
        => (dec[1].success /\ dec[1].url = url)

\* C2 (as stated): for every NDEF byte string, parsing the (cc, tlv) pair the
\* builder returns reports success and returns the NDEF bytes unchanged.
C2_TlvRoundTripAnyLength ==
    memdec # None => (memdec[1].success /\ memdec[1].ndef_data = ndef_in)

\* C2 (amended): for every NDEF byte string of at most 65535 bytes, parsing
\* the (cc, tlv) pair the builder returns reports success and returns the NDEF
\* bytes unchanged.
C2_TlvRoundTrip ==
    (memdec # None /\ Len(ndef_in[1]) <= 65535)
        => (memdec[1].success /\ memdec[1].ndef_data = ndef_in)

\* C2 witness: a 300-byte NDEF message went through the 3-byte length form and
\* came back.
C2_Witness ==
    /\ memdec # None /\ Len(ndef_in[1]) = 300
    /\ At(mem[1].tlv_bytes, 1) = 255
    /\ memdec[1].ndef_data = ndef_in

\* the NDEF Message TLV that the parser reached in the TLV region it was given:
\* none when the parser returned before its loop (a Capability Container
\* shorter than 4 bytes or without the magic 0xE1, a TLV region shorter than
\* 2 bytes)
DeclaredTlv ==
    IF /\ Len(mem[1].cc_bytes) >= 4
       /\ At(mem[1].cc_bytes, 0) = 225
       /\ Len(mem[1].tlv_bytes) >= 2
    THEN TlvDeclared(mem[1].tlv_bytes, 0)
    ELSE None

\* C14: every single-byte index a parser read is inside the buffer it indexes
\* (0 <= index < length); an NDEF record whose declared payload length runs
\* past the end of the buffer is answered with failure and no URL; and a TLV
\* region whose NDEF Message TLV declares more bytes than remain is answered
\* with failure and no NDEF bytes.
C14_DecoderBounds ==
    /\ \A k \in 1..Len(reads) :
          reads[k].index >= 0 /\ reads[k].index < reads[k].len
    /\ (dec # None /\ ndef_in # None /\ Len(ndef_in[1]) >= 3
        /\ 4 + At(ndef_in[1], 2) > Len(ndef_in[1]))
           => (~dec[1].success /\ dec[1].url = None)
    /\ (memdec # None /\ DeclaredTlv # None
        /\ DeclaredTlv[1].start + DeclaredTlv[1].length > Len(mem[1].tlv_bytes))
           => (~memdec[1].success /\ memdec[1].ndef_data = None)

\* C14 witness: a TLV region whose last byte is the length field of an NDEF
\* Message TLV: the parser read that last byte, no value byte remains for
\* the declared length, and the result is a failure.
C14_Witness ==
    /\ memdec # None /\ ~memdec[1].success
    /\ DeclaredTlv # None
    /\ DeclaredTlv[1].start = Len(mem[1].tlv_bytes)
    /\ DeclaredTlv[1].length > 0
    /\ \E k \in 1..Len(reads) :
          reads[k].buf = "tlv_bytes" /\ reads[k].index = reads[k].len - 1

\* the Capability Container that was parsed, and the same with version 1.0
ParsedCc == mem[1].cc_bytes
WithVersion10(cc) == <<At(cc, 0), 16, At(cc, 2), At(cc, 3)>>

\* C19: the Capability Container the builder produced passes the magic check
\* and parses to magic 0xE1, version 1.0, 144 bytes (size byte 0x12 times 8)
\* and read/write access 0; a Capability Container whose first byte is not
\* 0xE1 fails with no metadata; and a 4-byte Capability Container with magic
\* 0xE1 gives, for every version byte, the result it gives with version 1.0,
\* the version nibbles and size byte times 8 in the metadata.
C19_CcRoundTrip ==
    memdec # None =>
        /\ ndef_in # None =>
              /\ ParsedCc = <<225, 16, 18, 0>>
              /\ memdec[1].metadata =
                    Some([magic |-> 225, version_major |-> 1,
                          version_minor |-> 0, memory_size |-> 144,
                          read_access |-> 0, write_access |-> 0])
        /\ (Len(ParsedCc) >= 1 /\ At(ParsedCc, 0) # 225) =>
              (~memdec[1].success /\ memdec[1].metadata = None)
        /\ (Len(ParsedCc) = 4 /\ At(ParsedCc, 0) = 225) =>
              LET ref == _parse_type2_memory(WithVersion10(ParsedCc),
                                             mem[1].tlv_bytes)
              IN /\ memdec[1].success = ref.success
                 /\ memdec[1].ndef_data = ref.ndef_data
                 /\ memdec[1].metadata # None
                 /\ memdec[1].metadata[1].magic = 225
                 /\ memdec[1].metadata[1].version_major
                       = At(ParsedCc, 1) \div 16
                 /\ memdec[1].metadata[1].version_minor = At(ParsedCc, 1) % 16
                 /\ memdec[1].metadata[1].memory_size = At(ParsedCc, 2) * 8

\* C19 witness: the Capability Container built around a 5-byte NDEF message
\* was parsed, with success, to version 1.0 and 144 bytes.
C19_Witness ==
    /\ memdec # None /\ ndef_in # None /\ Len(ndef_in[1]) = 5
    /\ ParsedCc = _build_type2_memory(ndef_in[1]).cc_bytes
    /\ memdec[1].success
    /\ memdec[1].metadata[1].version_major = 1
    /\ memdec[1].metadata[1].memory_size = 144

\* offset to is where a run of null bytes (1 byte each) and of unknown blocks
\* lying inside the buffer (tag, length byte L, L value bytes) that starts at
\* offset from ends
RECURSIVE SkipsTo(_, _, _)
SkipsTo(b, from, to) ==
    IF from = to THEN TRUE
    ELSE IF from > to \/ from >= Len(b) THEN FALSE
    ELSE IF At(b, from) = 0 THEN SkipsTo(b, from + 1, to)
    ELSE IF At(b, from) \in {3, 254} THEN FALSE
    ELSE /\ from + 1 < Len(b)
         /\ from + 2 + At(b, from + 1) <= Len(b)
         /\ SkipsTo(b, from + 2 + At(b, from + 1), to)

\* where the value of the tag 0x03 block at offset o starts, and its length
NdefValueStart(b, o) == IF At(b, o + 1) = 255 THEN o + 4 ELSE o + 2
NdefValueLength(b, o) ==
    IF At(b, o + 1) = 255 THEN At(b, o + 2) * 256 + At(b, o + 3)
    ELSE At(b, o + 1)

\* a tag 0x03 block with its length field and its whole value inside b
CompleteNdefTlv(b, o) ==
    /\ o + 1 < Len(b) /\ At(b, o) = 3
    /\ At(b, o + 1) = 255 => o + 4 <= Len(b)
    /\ NdefValueStart(b, o) + NdefValueLength(b, o) <= Len(b)

\* the TLV region was walked: the Capability Container was accepted and the
\* region has at least 2 bytes
TlvWalked ==
    /\ memdec # None /\ Len(ParsedCc) >= 4 /\ At(ParsedCc, 0) = 225
    /\ Len(mem[1].tlv_bytes) >= 2

\* C24: a null byte moves the walk on by one byte and any tag other than
\* 0x00, 0x03, 0xFE by 2 plus the byte after it, without failing: whenever a
\* complete NDEF Message TLV starts where a run of null bytes and unknown
\* blocks inside the buffer ends, the parser succeeds and returns exactly the
\* value of that TLV.
C24_TlvWalkSkips ==
    TlvWalked =>
        \A o \in 0..(Len(mem[1].tlv_bytes) - 1) :
            (SkipsTo(mem[1].tlv_bytes, 0, o)
             /\ CompleteNdefTlv(mem[1].tlv_bytes, o))
                => /\ memdec[1].success
                   /\ memdec[1].ndef_data =
                         Some(Slice(mem[1].tlv_bytes,
                                    NdefValueStart(mem[1].tlv_bytes, o),
                                    NdefValueStart(mem[1].tlv_bytes, o)
                                    + NdefValueLength(mem[1].tlv_bytes, o)))

\* C24 witness: in 00 00 55 02 07 07 00 01 00 03 03 D1 01 00 FE the walk
\* stepped over two null bytes, a block of tag 0x55 with 2 value bytes, a null
\* byte and an empty block of tag 0x01, and returned D1 01 00.
C24_Witness ==
    /\ TlvWalked /\ mem[1].tlv_bytes = SkippingTlv
    /\ SkipsTo(SkippingTlv, 0, 9)
    /\ memdec[1].success /\ memdec[1].ndef_data = Some(<<209, 1, 0>>)

\* where the walk from offset o stops: at a tag 0x03 ("ndef", with its
\* offset), at a terminator, or at the end of the buffer
RECURSIVE WalkStop(_, _)
WalkStop(b, o) ==
    IF o >= Len(b) THEN [kind |-> "end", at |-> o]
    ELSE IF At(b, o) = 254 THEN [kind |-> "terminator", at |-> o]
    ELSE IF At(b, o) = 3 THEN [kind |-> "ndef", at |-> o]
    ELSE IF At(b, o) = 0 THEN WalkStop(b, o + 1)
    ELSE IF o + 1 < Len(b) THEN WalkStop(b, o + 2 + At(b, o + 1))
    ELSE WalkStop(b, o + 1)

\* C25: once the Capability Container is accepted the result carries its
\* metadata; it is a failure without NDEF bytes when the walk meets a
\* terminator or the end of the buffer before a tag 0x03, and when the tag
\* 0x03 it meets has no length byte, a 3-byte length cut short, or a declared
\* length (1-byte form, or 2 bytes big-endian after 0xFF) beyond the end of
\* the buffer; it is a success only when the tag 0x03 block the walk meets
\* lies wholly inside the buffer.
C25_TlvWalkFailures ==
    TlvWalked =>
        LET tlv == mem[1].tlv_bytes
            stop == WalkStop(tlv, 0)
            failure == ~memdec[1].success /\ memdec[1].ndef_data = None
        IN /\ memdec[1].metadata = Some(CcMetadata(ParsedCc))
           /\ stop.kind \in {"terminator", "end"} => failure
           /\ (stop.kind = "ndef" /\ stop.at + 1 >= Len(tlv)) => failure
           /\ (stop.kind = "ndef" /\ stop.at + 1 < Len(tlv)
               /\ At(tlv, stop.at + 1) = 255 /\ stop.at + 4 > Len(tlv))
                 => failure
           /\ (stop.kind = "ndef" /\ ~CompleteNdefTlv(tlv, stop.at)) => failure
           /\ memdec[1].success
                 => (stop.kind = "ndef" /\ CompleteNdefTlv(tlv, stop.at))

\* C25 witness: 03 FF 01 00 00 declares 256 bytes with one byte left: a
\* failure that carries the metadata of the Capability Container.
C25_Witness ==
    /\ TlvWalked /\ mem[1].tlv_bytes = <<3, 255, 1, 0, 0>>
    /\ NdefValueLength(mem[1].tlv_bytes, 0) = 256
    /\ ~memdec[1].success /\ memdec[1].ndef_data = None
    /\ memdec[1].metadata # None

\* the TLV region built for the NDEF bytes has the shape: tag 0x03, the
\* length (1 byte below 255, else 0xFF and 2 bytes big-endian), the NDEF
\* bytes, 0xFE, then at most 3 bytes 0x00 up to a multiple of 4
BuiltShape(ndef_data, tlv_bytes) ==
    LET n == Len(ndef_data)
        h == IF n < 255 THEN 2 ELSE 4
    IN /\ Len(tlv_bytes) % 4 = 0
       /\ Len(tlv_bytes) >= h + n + 1
       /\ At(tlv_bytes, 0) = 3
       /\ IF n < 255 THEN At(tlv_bytes, 1) = n
          ELSE /\ At(tlv_bytes, 1) = 255
               /\ At(tlv_bytes, 2) * 256 + At(tlv_bytes, 3) = n
       /\ Slice(tlv_bytes, h, h + n) = ndef_data
       /\ At(tlv_bytes, h + n) = 254
       /\ Len(tlv_bytes) - (h + n + 1) <= 3
       /\ \A i \in (h + n + 1)..(Len(tlv_bytes) - 1) : At(tlv_bytes, i) = 0

\* C27 (as stated): for every NDEF byte string the built TLV region has a
\* length that is a multiple of 4, starts with 0x03 and the length (1 byte
\* below 255, else 0xFF and the 2-byte big-endian length), has 0xFE right
\* after the NDEF bytes and only 0x00 bytes, at most 3, after it.
C27_BuiltShapeAnyLength ==
    mem # None => BuiltShape(ndef_in[1], mem[1].tlv_bytes)

\* C27 (amended): the same for every NDEF byte string of at most 65535 bytes,
\* the lengths that 2 bytes can hold.
C27_BuiltShape ==
    (mem # None /\ Len(ndef_in[1]) <= 65535)
        => BuiltShape(ndef_in[1], mem[1].tlv_bytes)

\* C27 witness: 254 NDEF bytes, the longest with the 1-byte length: 03 FE,
\* the bytes, FE and three bytes of padding, 260 bytes in all.
C27_Witness ==
    /\ mem # None /\ Len(ndef_in[1]) = 254
    /\ Len(mem[1].tlv_bytes) = 260
    /\ Slice(mem[1].tlv_bytes, 0, 2) = <<3, 254>>
    /\ Slice(mem[1].tlv_bytes, 256, 260) = <<254, 0, 0, 0>>

\* C32: the TLV loop terminates on every buffer: every turn moves the cursor
\* forward (by exactly 1 on a null tag, by at least 1 on an unknown tag, also
\* when its skip length takes the cursor past the end of the buffer), the
\* number of turns never exceeds the length of the buffer, and the walk ends
\* with the success or failure result of _parse_type2_memory.
C32_WalkTerminates ==
    /\ [][walk'[1].turns = walk[1].turns + 1 =>
            /\ walk'[1].offset > walk[1].offset
            /\ At(mem[1].tlv_bytes, walk[1].offset) = 0
                  => walk'[1].offset = walk[1].offset + 1
            /\ walk'[1].turns <= Len(mem[1].tlv_bytes)]_vars
    /\ [](memdec # None =>
            /\ ~walk[1].looping
            /\ memdec[1].success \in BOOLEAN
            /\ memdec[1] = _parse_type2_memory(mem[1].cc_bytes,
                                               mem[1].tlv_bytes))
    /\ <>(memdec # None)

\* C32 witness: in 00 55 FF the unknown block 55 declares 255 bytes: the
\* second turn took the cursor to 258, past the end of the 3-byte buffer, and
\* the walk ended with a failure.
C32_Witness ==
    /\ walk # None /\ mem[1].tlv_bytes = <<0, 85, 255>>
    /\ walk[1].turns = 2 /\ walk[1].offset = 258
    /\ memdec # None /\ ~memdec[1].success

-----------------------------------------------------------------------------
(* Emulator: NFCEmulator (src/klippynfc.py) *)

\* emulation threads that may be created in one run
MaxThreads == 2

\* commands an initiator sends in one activation
MaxCmds == 3

\* failed iterations injected in a row
MaxFailRun == 12

\* "if self.error_count > 10"
ErrorBudget == 10

Threads == 1..MaxThreads

\* 'http://printer.local:7125' as _get_url() builds it, and a URL given to
\* NFC_SET_URL: 'https://www.a'
DefaultUrl == Http \o <<112, 114, 105, 110, 116, 101, 114, 46, 108, 111, 99,
                        97, 108, 58, 55, 49, 50, 53>>
OtherUrl == HttpsWww \o <<97>>

\* the emulator's own copy of the record builder; bytearray() raises on a
\* payload length above 255
NFCEmulator_build_ndef_uri_record(u) ==
    LET uri_bytes == Utf8Encode(uri_data_of(u))
        payload_length == 1 + Len(uri_bytes)
    IN IF payload_length > 255
       THEN [raised |-> TRUE, bytes |-> <<>>]
       ELSE [raised |-> FALSE,
             bytes |-> <<209, 1, payload_length, 85, uri_code_of(u)>> \o uri_bytes]

\* the response _handle_type4_commands hands to tgSetData for a command of at
\* least 4 bytes
Type4Response(data, ndef_data) ==
    LET ins == At(data, 1)
    IN IF ins = 164 THEN <<144, 0>>
       ELSE IF ins = 176 THEN ndef_data \o <<144, 0>>
       ELSE <<106, 130>>

Alive(t) == thr[t].pc \notin {"new", "done", "fatal"}

HasFreeSlot == \E t \in Threads : thr[t].pc = "new"
FreeSlot == CHOOSE t \in Threads :
                thr[t].pc = "new" /\ \A u \in Threads : u < t => thr[u].pc # "new"

InitEmu ==
    /\ url = None /\ ndef_in = None /\ rec = None /\ dec = None
    /\ mem = None /\ memdec = None /\ reads = <<>> /\ walk = None
    /\ klippy = "starting" /\ mainPc = "idle" /\ nfc = None
    /\ emulation_thread = 0 /\ running = FALSE /\ current_url = None
    /\ error_count = 0
    /\ thr = [t \in Threads |-> [pc |-> "new", ndef_data |-> <<>>, tmp |-> 0,
                                 log |-> <<>>, seen |-> 0,
                                 slept |-> FALSE]]
    /\ failRun = 0
    /\ TagIdle

\* handle_ready() up to the return of _init_pn532(): outcome is what
\* _init_pn532 met: "ok", "no_library" (the import fails, self.nfc untouched)
\* or "no_device" (self.nfc assigned, then begin / getFirmwareVersion /
\* SAMConfig fails). On failure handle_ready returns; on success the host
\* goes on to start the thread (ReadyStart), and the threads that are alive
\* run in between.
handle_ready(outcome) ==
    /\ current_url' = Some(DefaultUrl)
    /\ nfc' = IF outcome = "no_library" THEN nfc ELSE Some("pn532")
    /\ mainPc' = IF outcome = "ok" THEN "ready_start" ELSE "idle"
    /\ UNCHANGED <<running, emulation_thread, thr>>

\* the rest of handle_ready(): self.running = True and the start of a new
\* emulation thread
ReadyStart ==
    /\ mainPc = "ready_start"
    /\ running' = TRUE
    /\ emulation_thread' = FreeSlot
    /\ thr' = [thr EXCEPT ![FreeSlot].pc = "loop"]
    /\ mainPc' = "idle"
    /\ UNCHANGED <<klippy, nfc, current_url, error_count, failRun>>
    /\ UNCHANGED codecVars
    /\ UNCHANGED tagVars

InitOutcomes == {"ok", "no_library", "no_device"}

\* klippy:ready
EvReady ==
    /\ klippy = "starting" /\ mainPc = "idle" /\ HasFreeSlot
    /\ \E outcome \in InitOutcomes : handle_ready(outcome)
    /\ klippy' = "ready"
    /\ UNCHANGED <<error_count, failRun>>
    /\ UNCHANGED codecVars
    /\ UNCHANGED tagVars

\* klippy:disconnect: clears the flag and waits at most 2 s for the thread;
\* the host does nothing after the wait
EvDisconnect ==
    /\ klippy = "ready" /\ mainPc = "idle"
    /\ running' = FALSE
    /\ klippy' = "disconnected"
    /\ UNCHANGED <<mainPc, nfc, emulation_thread, current_url, error_count,
                   thr, failRun>>
    /\ UNCHANGED codecVars
    /\ UNCHANGED tagVars

\* NFC_SET_URL URL=...
CmdSetUrl ==
    /\ klippy = "ready" /\ mainPc = "idle"
    /\ \E u \in {DefaultUrl, OtherUrl} :
          /\ current_url # Some(u)
          /\ current_url' = Some(u)
    /\ UNCHANGED <<klippy, mainPc, nfc, emulation_thread, running, error_count,
                   thr, failRun>>
    /\ UNCHANGED codecVars
    /\ UNCHANGED tagVars

\* NFC_RESTART, up to the join: self.running = False
CmdRestartStop ==
    /\ klippy = "ready" /\ mainPc = "idle" /\ HasFreeSlot
    /\ running' = FALSE
    /\ mainPc' = "restart_join"
    /\ UNCHANGED <<klippy, nfc, emulation_thread, current_url, error_count,
                   thr, failRun>>
    /\ UNCHANGED codecVars
    /\ UNCHANGED tagVars

\* thread t is inside, or about to make, a transport call
Calling(t) == thr[t].pc \in {"init", "get"}

\* NFC_RESTART: there is no thread or join() returns because the thread has
\* ended; then handle_ready()
RestartJoined ==
    /\ mainPc = "restart_join"
    /\ IF emulation_thread = 0 THEN TRUE ELSE ~Alive(emulation_thread)
    /\ \E outcome \in InitOutcomes : handle_ready(outcome)
    /\ UNCHANGED <<klippy, error_count, failRun>>
    /\ UNCHANGED codecVars
    /\ UNCHANGED tagVars

\* NFC_RESTART: the 2 seconds of join(timeout=2) pass while the thread has
\* not ended, wherever it is (inside a transport call, in a sleep, between two
\* statements); then handle_ready()
RestartJoinTimeout ==
    /\ mainPc = "restart_join"
    /\ IF emulation_thread = 0 THEN FALSE ELSE Alive(emulation_thread)
    /\ \E outcome \in InitOutcomes : handle_ready(outcome)
    /\ UNCHANGED <<klippy, error_count, failRun>>
    /\ UNCHANGED codecVars
    /\ UNCHANGED tagVars

hostVars == <<klippy, mainPc, nfc, emulation_thread, current_url>>

\* self._build_ndef_uri_record(self.current_url) for each URL the emulator can
\* hold, computed once
EmulatorRecords ==
    [u \in {DefaultUrl, OtherUrl} |-> NFCEmulator_build_ndef_uri_record(u)]

\* top of "while self.running": leave the loop, or build the NDEF message of
\* the current URL and go on to tgInitAsTarget
LoopCheck(t) ==
    /\ thr[t].pc = "loop"
    /\ IF ~running
       THEN /\ thr' = [thr EXCEPT ![t].pc = "done", ![t].slept = FALSE]
            /\ UNCHANGED failRun
       ELSE LET built == EmulatorRecords[current_url[1]]
            IN IF built.raised
               THEN /\ thr' = [thr EXCEPT ![t].pc = "exc_load",
                                          ![t].seen = failRun + 1,
                                          ![t].slept = FALSE]
                    /\ failRun' = failRun + 1
               ELSE /\ thr' = [thr EXCEPT ![t].pc = "init",
                                          ![t].ndef_data = built.bytes,
                                          ![t].slept = FALSE]
                    /\ UNCHANGED failRun
    /\ UNCHANGED <<hostVars, running, error_count>>
    /\ UNCHANGED codecVars
    /\ UNCHANGED tagVars

\* a no-activation branch that takes the way of the except clause
TgInitNoTargetCounted(t) ==
    /\ thr[t].pc = "init" /\ failRun < MaxFailRun
    /\ thr' = [thr EXCEPT ![t].pc = "exc_load", ![t].seen = failRun + 1,
                          ![t].slept = TRUE]
    /\ failRun' = failRun + 1
    /\ UNCHANGED <<hostVars, running, error_count>>
    /\ UNCHANGED codecVars
    /\ UNCHANGED tagVars

\* tgInitAsTarget returns <= 0: sleep 0.1 s and try again; slept records
\* that this turn of the loop ended in "time.sleep(0.1); continue"
TgInitNoTarget(t) ==
    /\ thr[t].pc = "init"
    /\ thr' = [thr EXCEPT ![t].pc = "loop", ![t].slept = TRUE]
    /\ UNCHANGED <<hostVars, running, error_count, failRun>>
    /\ UNCHANGED codecVars
    /\ UNCHANGED tagVars

\* tgInitAsTarget returns > 0: an initiator activated the target
TgInitActivated(t) ==
    /\ thr[t].pc = "init"
    /\ thr' = [thr EXCEPT ![t].pc = "serve"]
    /\ UNCHANGED <<hostVars, running, error_count, failRun>>
    /\ UNCHANGED codecVars
    /\ UNCHANGED tagVars

\* tgInitAsTarget raises: caught by the loop's except clause
TgInitRaises(t) ==
    /\ thr[t].pc = "init" /\ failRun < MaxFailRun
    /\ thr' = [thr EXCEPT ![t].pc = "exc_load", ![t].seen = failRun + 1]
    /\ failRun' = failRun + 1
    /\ UNCHANGED <<hostVars, running, error_count>>
    /\ UNCHANGED codecVars
    /\ UNCHANGED tagVars

\* a command loop that goes on to the next tgGetData whatever the flag says
ServeCheckIgnoresFlag(t) ==
    /\ thr[t].pc = "serve"
    /\ thr' = [thr EXCEPT ![t].pc = "get"]
    /\ UNCHANGED failRun
    /\ UNCHANGED <<hostVars, running, error_count>>
    /\ UNCHANGED codecVars
    /\ UNCHANGED tagVars

\* top of the command loop "while self.running"
ServeCheck(t) ==
    /\ thr[t].pc = "serve"
    /\ IF running
       THEN /\ thr' = [thr EXCEPT ![t].pc = "get"]
            /\ UNCHANGED failRun
       ELSE /\ thr' = [thr EXCEPT ![t].pc = "reset", ![t].log = <<>>]
            /\ UNCHANGED failRun
    /\ UNCHANGED <<hostVars, running, error_count>>
    /\ UNCHANGED codecVars
    /\ UNCHANGED tagVars

\* tgGetData returns status <= 0: the initiator is gone, the serving completes
GetNoData(t) ==
    /\ thr[t].pc = "get"
    /\ thr' = [thr EXCEPT ![t].pc = "reset", ![t].log = <<>>]
    /\ UNCHANGED <<hostVars, running, error_count, failRun>>
    /\ UNCHANGED codecVars
    /\ UNCHANGED tagVars

\* tgGetData returns a command of fewer than 4 bytes: continue
GetShort(t, data) ==
    /\ thr[t].pc = "get" /\ Len(data) < 4
    /\ thr' = [thr EXCEPT ![t].pc = "serve"]
    /\ UNCHANGED <<hostVars, running, error_count, failRun>>
    /\ UNCHANGED codecVars
    /\ UNCHANGED tagVars

\* tgGetData returns a command and tgSetData sends the response
GetServe(t, data) ==
    /\ thr[t].pc = "get" /\ Len(data) >= 4 /\ Len(thr[t].log) < MaxCmds
    /\ thr' = [thr EXCEPT ![t].pc = "serve",
                          ![t].log = Append(@,
                              [cmd |-> data,
                               resp |-> Type4Response(data, thr[t].ndef_data)])]
    /\ UNCHANGED <<hostVars, running, error_count, failRun>>
    /\ UNCHANGED codecVars
    /\ UNCHANGED tagVars

\* tgGetData or tgSetData raises: caught by the except clause inside
\* _handle_type4_commands
ServeRaises(t) ==
    /\ thr[t].pc = "get" /\ failRun < MaxFailRun
    /\ thr' = [thr EXCEPT ![t].pc = "caught", ![t].log = <<>>,
                          ![t].seen = failRun + 1]
    /\ failRun' = failRun + 1
    /\ UNCHANGED <<hostVars, running, error_count>>
    /\ UNCHANGED codecVars
    /\ UNCHANGED tagVars

\* "self.error_count = 0" after _handle_type4_commands returned from a
\* serving that completed
ResetCount(t) ==
    /\ thr[t].pc = "reset"
    /\ error_count' = 0
    /\ failRun' = 0
    /\ thr' = [thr EXCEPT ![t].pc = "loop"]
    /\ UNCHANGED <<hostVars, running>>
    /\ UNCHANGED codecVars
    /\ UNCHANGED tagVars

\* "self.error_count = 0" after _handle_type4_commands caught an exception,
\* logged it and returned
ResetAfterCaught(t) ==
    /\ thr[t].pc = "caught"
    /\ error_count' = 0
    /\ thr' = [thr EXCEPT ![t].pc = "loop", ![t].seen = 0]
    /\ UNCHANGED <<hostVars, running, failRun>>
    /\ UNCHANGED codecVars
    /\ UNCHANGED tagVars

\* "self.error_count += 1": the load
ExcLoad(t) ==
    /\ thr[t].pc = "exc_load"
    /\ thr' = [thr EXCEPT ![t].pc = "exc_store", ![t].tmp = error_count]
    /\ UNCHANGED <<hostVars, running, error_count, failRun>>
    /\ UNCHANGED codecVars
    /\ UNCHANGED tagVars

\* "self.error_count += 1": the store
ExcStore(t) ==
    /\ thr[t].pc = "exc_store"
    /\ error_count' = thr[t].tmp + 1
    /\ thr' = [thr EXCEPT ![t].pc = "exc_check", ![t].tmp = 0]
    /\ UNCHANGED <<hostVars, running, failRun>>
    /\ UNCHANGED codecVars
    /\ UNCHANGED tagVars

\* the budget test of the except clause
BudgetExceeded(n) == n > ErrorBudget

\* "if self.error_count > 10": go on to stop for good, or sleep 1 s and go
\* back to the loop test
ExcCheck(t) ==
    /\ thr[t].pc = "exc_check"
    /\ IF BudgetExceeded(error_count)
       THEN thr' = [thr EXCEPT ![t].pc = "exc_stop"]
       ELSE thr' = [thr EXCEPT ![t].pc = "loop", ![t].seen = 0]
    /\ UNCHANGED <<hostVars, running, error_count, failRun>>
    /\ UNCHANGED codecVars
    /\ UNCHANGED tagVars

\* after the test fired and the error was logged: "self.running = False" and
\* "break"; the host and the other threads run between the test and this
ExcStop(t) ==
    /\ thr[t].pc = "exc_stop"
    /\ running' = FALSE
    /\ thr' = [thr EXCEPT ![t].pc = "fatal"]
    /\ UNCHANGED <<hostVars, error_count, failRun>>
    /\ UNCHANGED codecVars
    /\ UNCHANGED tagVars

-----------------------------------------------------------------------------
\* Command APDUs an initiator sends

\* the NDEF application AID D2 76 00 00 85 01 01 and another AID
NdefAid == <<210, 118, 0, 0, 133, 1, 1>>
OtherAid == <<160, 0, 0, 0, 3, 16, 16>>

\* file identifiers E1 03 (CC file), E1 04 (NDEF file) and E1 05 (no file)
CcFileId == <<225, 3>>
NdefFileId == <<225, 4>>
OtherFileId == <<225, 5>>

SelectAid(aid) == <<0, 164, 4, 0, Len(aid)>> \o aid \o <<0>>
SelectFile(p1, fid) == <<0, 164, p1, 12, 2>> \o fid
ReadBinary(offset, le) == <<0, 176, offset \div 256, offset % 256, le>>
UpdateBinary == <<0, 214, 0, 0, 1, 0>>
ShortCommand == <<0, 176>>

ApduCommands ==
    { SelectAid(NdefAid), SelectAid(OtherAid),
      SelectFile(0, CcFileId), SelectFile(0, NdefFileId),
      SelectFile(0, OtherFileId), SelectFile(2, CcFileId),
      ReadBinary(0, 15), ReadBinary(1, 4), ReadBinary(300, 1),
      UpdateBinary, ShortCommand }

\* what a reader sends while the transport is being disturbed
ReaderCommands == { ReadBinary(0, 15), ShortCommand }

-----------------------------------------------------------------------------
\* The emulation loop serving an initiator over a transport that never fails

Serve(t, commands) ==
    \/ LoopCheck(t)
    \/ TgInitNoTarget(t)
    \/ TgInitActivated(t)
    \/ ServeCheck(t)
    \/ GetNoData(t)
    \/ \E data \in commands : GetShort(t, data)
    \/ \E data \in commands : GetServe(t, data)
    \/ ResetCount(t)

NextType4 ==
    \/ EvReady
    \/ ReadyStart
    \/ CmdSetUrl
    \/ \E t \in Threads : Serve(t, ApduCommands)

SpecType4 == InitEmu /\ [][NextType4]_vars

-----------------------------------------------------------------------------
\* The emulator under host events and transport failures

Fault(t) ==
    \/ TgInitRaises(t)
    \/ ServeRaises(t)
    \/ ResetAfterCaught(t)
    \/ ExcLoad(t)
    \/ ExcStore(t)
    \/ ExcCheck(t)
    \/ ExcStop(t)

NextEmulation ==
    \/ EvReady
    \/ ReadyStart
    \/ EvDisconnect
    \/ CmdRestartStop
    \/ RestartJoined
    \/ RestartJoinTimeout
    \/ \E t \in Threads : Serve(t, ReaderCommands)
    \/ \E t \in Threads : Fault(t)

SpecEmulation == InitEmu /\ [][NextEmulation]_vars

-----------------------------------------------------------------------------
\* The Type-4 engine of the specification (section 4.3), as far as the
\* properties below refer to it

Ins(c) == At(c, 1)
P1(c) == At(c, 2)
P2(c) == At(c, 3)
StatusWord(resp) == Slice(resp, Len(resp) - 2, Len(resp))
Body(resp) == Slice(resp, 0, Len(resp) - 2)

Success == <<144, 0>>
FileNotFound == <<106, 130>>
WrongLength == <<103, 0>>
WrongOffset == <<107, 0>>
CommandNotAllowed == <<105, 134>>
InsNotSupported == <<109, 0>>
IncorrectParameters == <<106, 134>>
StatusWords == {Success, FileNotFound, WrongLength, WrongOffset,
                CommandNotAllowed, InsNotSupported, IncorrectParameters}

\* the file a command selects: a SELECT by file ID naming the CC file or the
\* NDEF file moves the selection, every other command leaves it
SelectsFile(c) ==
    IF Len(c) >= 7 /\ Ins(c) = 164 /\ P1(c) = 0 /\ At(c, 4) = 2
    THEN IF Slice(c, 5, 7) = CcFileId THEN "CcSelected"
         ELSE IF Slice(c, 5, 7) = NdefFileId THEN "NdefSelected"
         ELSE ""
    ELSE ""

\* the selection after the first k commands of an activation
SelectedAfter(log, k) ==
    LET hits == {i \in 1..k : SelectsFile(log[i].cmd) # ""}
        last == CHOOSE i \in hits : \A j \in hits : j <= i
    IN IF hits = {} THEN "NoFileSelected" ELSE SelectsFile(log[last].cmd)

\* the NDEF file: the record preceded by its 2-byte big-endian length
NdefFile(ndef_data) ==
    <<Len(ndef_data) \div 256, Len(ndef_data) % 256>> \o ndef_data

\* a 15-byte Type-4 CC file for an NDEF file of n bytes: NDEF file ID E1 04,
\* maximum size n big-endian, read access 00, write access FF
IsType4Cc(cc, n) ==
    /\ Len(cc) = 15
    /\ Slice(cc, 9, 11) = NdefFileId
    /\ Slice(cc, 11, 13) = <<n \div 256, n % 256>>
    /\ Slice(cc, 13, 15) = <<0, 255>>

\* C3: within one activation, SELECT by AID with the NDEF application AID,
\* then SELECT by file ID E1 03, then READ BINARY offset 0 length 15 each get
\* status 9000, and the READ BINARY body is the first 15 bytes of the
\* Capability Container, not the NDEF record.
C3_Type4HappyPath ==
    \A t \in Threads : \A i \in 1..(Len(thr[t].log) - 2) :
        LET log == thr[t].log
        IN (/\ log[i].cmd = SelectAid(NdefAid)
            /\ log[i + 1].cmd = SelectFile(0, CcFileId)
            /\ log[i + 2].cmd = ReadBinary(0, 15))
           => /\ log[i].resp = Success
              /\ log[i + 1].resp = Success
              /\ StatusWord(log[i + 2].resp) = Success
              /\ IsType4Cc(Body(log[i + 2].resp),
                           Len(NdefFile(thr[t].ndef_data)))
              /\ Body(log[i + 2].resp) # thr[t].ndef_data

\* C4: a READ BINARY received while no file is selected is answered with 6986
\* and no data; the selection is NoFileSelected at the start of every
\* activation, so this covers a READ BINARY that is the first command of an
\* activation.
C4_ReadNeedsSelectedFile ==
    \A t \in Threads : \A i \in 1..Len(thr[t].log) :
        LET log == thr[t].log
        IN (Ins(log[i].cmd) = 176 /\ SelectedAfter(log, i - 1) = "NoFileSelected")
           => log[i].resp = CommandNotAllowed

\* C5: READ BINARY with a file selected reads the selected buffer at offset
\* P1<<8|P2: an offset at or beyond the buffer length gets 6B00, otherwise the
\* body is buffer[offset : min(offset+length, bufferLen)] followed by 9000.
C5_ReadBinarySlice ==
    \A t \in Threads : \A i \in 1..Len(thr[t].log) :
        LET log == thr[t].log
            cmd == log[i].cmd
            selected == SelectedAfter(log, i - 1)
            offset == P1(cmd) * 256 + P2(cmd)
            length == IF Len(cmd) > 4 THEN At(cmd, 4) ELSE 0
            ndef_file == NdefFile(thr[t].ndef_data)
            bufferLen == IF selected = "CcSelected" THEN 15 ELSE Len(ndef_file)
        IN (Ins(cmd) = 176 /\ selected # "NoFileSelected")
           => IF offset >= bufferLen
              THEN log[i].resp = WrongOffset
              ELSE /\ StatusWord(log[i].resp) = Success
                   /\ Len(Body(log[i].resp)) = Min(offset + length, bufferLen) - offset
                   /\ selected = "NdefSelected"
                      => Body(log[i].resp) = Slice(ndef_file, offset, offset + length)
                   /\ (selected = "CcSelected" /\ offset = 0 /\ length >= 15)
                      => IsType4Cc(Body(log[i].resp), Len(ndef_file))

\* C6: SELECT by AID with an AID other than D2 76 00 00 85 01 01, and SELECT
\* by file ID with a file ID other than E1 03 and E1 04, are answered with
\* 6A82; a SELECT whose P1 is neither 00 nor 04 is answered with 6A86.
C6_SelectOnlyOnMatch ==
    \A t \in Threads : \A i \in 1..Len(thr[t].log) :
        LET cmd == thr[t].log[i].cmd
            resp == thr[t].log[i].resp
        IN Ins(cmd) = 164
           => /\ (P1(cmd) = 4 /\ Slice(cmd, 5, 5 + At(cmd, 4)) # NdefAid)
                 => resp = FileNotFound
              /\ (P1(cmd) = 0 /\ Slice(cmd, 5, 7) \notin {CcFileId, NdefFileId})
                 => resp = FileNotFound
              /\ P1(cmd) \notin {0, 4} => resp = IncorrectParameters

\* C7: every command of at least 4 bytes whose instruction is neither SELECT
\* nor READ BINARY is answered with 6D00, and every response ends with a
\* status word of the closed set.
C7_OtherInsAndClosedStatus ==
    \A t \in Threads : \A i \in 1..Len(thr[t].log) :
        LET cmd == thr[t].log[i].cmd
            resp == thr[t].log[i].resp
        IN /\ Ins(cmd) \notin {164, 176} => resp = InsNotSupported
           /\ StatusWord(resp) \in StatusWords

-----------------------------------------------------------------------------
\* Error budget and transport ownership

\* thread t ends a failure handling and goes back to the top of the loop
BackToLoop(t) == thr[t].seen > 0 /\ thr'[t].pc = "loop"

\* thread t leaves the loop because the budget test fired
BudgetStop(t) == thr[t].pc # "fatal" /\ thr'[t].pc = "fatal"

\* thread t stops on the budget although neither the failure it is handling
\* nor the current run of failures reached the 11th
EarlyStop(t) ==
    BudgetStop(t) /\ thr[t].seen <= ErrorBudget /\ failRun <= ErrorBudget

\* C8: an iteration that fails as the 11th (or later) of a run of consecutive
\* failures does not go back to the loop: the loop stops with the running
\* flag false and the stopped loop attempts no further activation; within the
\* first 10 failures of a run the loop does not stop.
C8_ErrorBudget ==
    [][\A t \in Threads :
          /\ thr[t].seen > ErrorBudget => ~BackToLoop(t)
          /\ BudgetStop(t) => ~running'
          /\ thr[t].pc = "fatal" => thr'[t].pc = "fatal"
          /\ ~EarlyStop(t)]_vars

\* C9: the step that ends a completed serving sets the error counter to 0,
\* and a loop stops on the budget only on a run of at least 11 failures with
\* no successful interaction between them.
C9_SuccessResetsBudget ==
    [][\A t \in Threads :
          /\ (thr[t].pc = "reset" /\ thr'[t].pc = "loop") => error_count' = 0
          /\ ~EarlyStop(t)]_vars

\* C10: at any moment at most one emulation thread is inside, or about to
\* make, a transport call.
C10_ExclusiveTransport ==
    Cardinality({t \in Threads : Calling(t)}) <= 1

-----------------------------------------------------------------------------
\* The emulator being stopped and restarted, every transport call returning

\* transport exceptions injected before an interaction completes
MaxCancelFaults == 2

\* the steps of emulation thread t; every transport call it makes returns
\* or raises
ThreadStep(t) ==
    \/ Serve(t, ReaderCommands)
    \/ failRun < MaxCancelFaults /\ TgInitRaises(t)
    \/ failRun < MaxCancelFaults /\ ServeRaises(t)
    \/ ResetAfterCaught(t)
    \/ ExcLoad(t)
    \/ ExcStore(t)
    \/ ExcCheck(t)
    \/ ExcStop(t)

NextCancel ==
    \/ EvReady
    \/ ReadyStart
    \/ EvDisconnect
    \/ CmdRestartStop
    \/ RestartJoined
    \/ RestartJoinTimeout
    \/ \E t \in Threads : ThreadStep(t)

\* a started thread is scheduled again and again
SpecCancel ==
    InitEmu /\ [][NextCancel]_vars /\ \A t \in Threads : WF_vars(ThreadStep(t))

\* thread t served one more command in this step
ServedCommand(t) == Len(thr'[t].log) > Len(thr[t].log)

\* C21: a thread at the top of the outer loop that finds the flag false ends
\* without another activation attempt; a thread at the top of the command loop
\* that finds the flag false leaves the command loop without fetching a
\* command; while the flag is false a command is served only by a thread that
\* was already waiting for it, which then is at the top of the command loop;
\* and if from some point on the flag stays false, every emulation thread
\* eventually has ended for good.
C21_CooperativeCancel ==
    /\ [][\A t \in Threads :
            /\ (thr[t].pc = "loop" /\ ~running /\ thr'[t] # thr[t])
                  => thr'[t].pc = "done"
            /\ (thr[t].pc = "serve" /\ ~running /\ thr'[t] # thr[t])
                  => thr'[t].pc = "reset"
            /\ (~running /\ ServedCommand(t))
                  => (thr[t].pc = "get" /\ thr'[t].pc = "serve")]_vars
    /\ (<>[](~running)) => <>[](\A t \in Threads : ~Alive(t))

\* C21 witness: a disconnect cleared the flag while the emulation thread was
\* running, and the thread has left the loop and ended.
C21_Witness ==
    /\ klippy = "disconnected" /\ ~running
    /\ emulation_thread # 0
    /\ thr[emulation_thread].pc = "done"
    /\ failRun = 0 /\ error_count = 0

\* C28: a turn of the loop in which tgInitAsTarget reports no activation
\* leaves the error counter and the running flag as they were, serves no
\* command, and takes the thread back to the loop test, from which, while the
\* flag is set, its next step is another call of tgInitAsTarget.
C28_NoActivationNoError ==
    [][\A t \in Threads :
          /\ (thr[t].pc = "init" /\ thr'[t].slept)
                => /\ thr'[t].pc = "loop"
                   /\ error_count' = error_count /\ running' = running
                   /\ failRun' = failRun
                   /\ thr'[t].log = thr[t].log
          /\ (thr[t].pc = "loop" /\ thr[t].slept /\ running
              /\ thr'[t] # thr[t])
                => thr'[t].pc = "init"]_vars

\* C28 witness: a thread back at the loop test after a no-activation, with
\* one earlier failure still counted and the flag still set.
C28_Witness ==
    \E t \in Threads :
        /\ thr[t].pc = "loop" /\ thr[t].slept
        /\ running /\ error_count = 1 /\ failRun = 1 /\ thr[t].log = <<>>

\* thread t is at the loop test or in tgInitAsTarget with the flag set
AboutToActivate(t) == running /\ thr[t].pc \in {"loop", "init"}

\* C30: whenever an emulation loop is running and about to attempt an
\* activation the error counter is at most 10, so that a loop started by
\* NFC_RESTART after a budget stop has the whole budget of 10 failures again;
\* stated for a loop that is the only live thread, where no other loop writes
\* the counter.
C30_RestartRestoresBudget ==
    \A t \in Threads :
        (AboutToActivate(t) /\ \A o \in Threads \ {t} : ~Alive(o))
            => error_count <= ErrorBudget

\* C20 (as stated): a thread that met an exception of tgGetData or tgSetData
\* while serving goes on into the failure handling of the loop (the
\* increment of the error counter, the budget test and the back-off) with the
\* counter as it was, instead of going back to the loop as after a
\* successful interaction with the counter set to 0.
C20_ServingExceptionCounted ==
    [][\A t \in Threads :
          (thr[t].pc = "caught" /\ thr'[t].pc # "caught")
              => (thr'[t].pc = "exc_load" /\ error_count' = error_count)]_vars

-----------------------------------------------------------------------------
(* Tag operations of the reader/writer: KlippyNFC._write_pages, _read_pages, *)
(* _write_tag, _read_tag, _verify_tag                                        *)

\* The transport misbehaves on at most one call of an operation: call number
\* at (0: never) returns failure ("fail") or raises ("raise").
NoFault == [at |-> 0, kind |-> "fail"]

\* the plan as the calls after the first n see it
After(plan, n) ==
    IF plan.at > n THEN [at |-> plan.at - n, kind |-> plan.kind] ELSE NoFault

\* a status message: the literal parts of the f-string and the numbers put
\* into it
Msg(parts, nums) == [parts |-> parts, nums |-> nums]
Prefixed(text, m) == [parts |-> <<text>> \o m.parts, nums |-> m.nums]

\* n bytes of the tag starting at page; pages never written read as zeros
TagBytes(t, page, n) ==
    [i \in 1..n |-> LET j == (page - 3) * 4 + i
                    IN IF j >= 1 /\ j <= Len(t) THEN t[j] ELSE 0]

\* the tag after the pages from start_page on took stored (whole pages)
StorePages(t, start_page, stored) ==
    LET o == (start_page - 3) * 4
        n == IF Len(t) > o + Len(stored) THEN Len(t) ELSE o + Len(stored)
    IN IF stored = <<>> THEN t
       ELSE [i \in 1..n |-> IF i > o /\ i <= o + Len(stored) THEN stored[i - o]
                            ELSE IF i <= Len(t) THEN t[i] ELSE 0]

\* padding that adds a whole page of zeros to data that already fills its
\* pages
PadTo4AlwaysPads(data) == data \o Fill(4 - (Len(data) % 4), 0)

\* "while len(write_data) % 4 != 0: write_data.append(0x00)"
PadTo4(data) == data \o Fill((4 - (Len(data) % 4)) % 4, 0)

\* _write_pages that goes on to the remaining pages after a write failed
_write_pagesKeepGoing(start_page, data, t, plan) ==
    LET write_data == PadTo4(data)
        pages == Len(write_data) \div 4
        stopped == plan.at >= 1 /\ plan.at <= pages
    IN [success |-> ~stopped,
        message |-> IF ~stopped
                    THEN Msg(<<"Wrote ", " bytes (", " pages) starting at page ">>,
                             <<Len(data), pages, start_page>>)
                    ELSE Msg(<<"Failed to write page ">>,
                             <<start_page + plan.at - 1>>),
        io |-> [k \in 1..pages |->
                   [call |-> "write", page |-> start_page + k - 1,
                    data |-> Slice(write_data, 4 * (k - 1), 4 * k),
                    outcome |-> IF stopped /\ k = plan.at THEN plan.kind
                                ELSE "ok"]],
        tag |-> StorePages(t, start_page, write_data)]

\* _write_pages(start_page, data) -> (success, message), with the page writes
\* it issued and the tag it leaves
_write_pages(start_page, data, t, plan) ==
    LET write_data == PadTo4(data)
        pages == Len(write_data) \div 4
        stopped == plan.at >= 1 /\ plan.at <= pages
        issued == IF stopped THEN plan.at ELSE pages
        pages_written == IF stopped THEN plan.at - 1 ELSE pages
        page == start_page + pages_written
    IN [success |-> ~stopped,
        message |-> IF ~stopped
                    THEN Msg(<<"Wrote ", " bytes (", " pages) starting at page ">>,
                             <<Len(data), pages_written, start_page>>)
                    ELSE IF plan.kind = "fail"
                    THEN Msg(<<"Failed to write page ">>, <<page>>)
                    ELSE Msg(<<"Error writing pages: ">>, <<>>),
        io |-> [k \in 1..issued |->
                   [call |-> "write", page |-> start_page + k - 1,
                    data |-> Slice(write_data, 4 * (k - 1), 4 * k),
                    outcome |-> IF stopped /\ k = plan.at THEN plan.kind
                                ELSE "ok"]],
        tag |-> StorePages(t, start_page,
                           Slice(write_data, 0, 4 * pages_written))]

\* _write_tag(url) -> (success, message)
_write_tag(u, t, plan) ==
    LET built == _build_ndef_uri_record(u)
        image == _build_type2_memory(built.bytes)
        total_bytes == Len(image.cc_bytes) + Len(image.tlv_bytes)
        cc == _write_pages(3, image.cc_bytes, t, plan)
        tlv == _write_pages(4, image.tlv_bytes, cc.tag, After(plan, Len(cc.io)))
        tlv_pages == (Len(image.tlv_bytes) + 3) \div 4
    IN IF built.raised
       THEN [success |-> FALSE, message |-> Msg(<<"Error writing tag: ">>, <<>>),
             io |-> <<>>, tag |-> t]
       ELSE IF ~cc.success
       THEN [success |-> FALSE,
             message |-> Prefixed("Failed to write Capability Container: ",
                                  cc.message),
             io |-> cc.io, tag |-> cc.tag]
       ELSE IF ~tlv.success
       THEN [success |-> FALSE,
             message |-> Prefixed("Failed to write TLV data: ", tlv.message),
             io |-> cc.io \o tlv.io, tag |-> tlv.tag]
       ELSE [success |-> TRUE,
             message |-> Msg(<<"Successfully wrote ", " bytes (1 CC page + ",
                               " TLV pages)">>, <<total_bytes, tlv_pages>>),
             io |-> cc.io \o tlv.io, tag |-> tlv.tag]

\* _read_pages that reads a page again when the transport reported a failure
_read_pagesRetries(start_page, count, t, plan) ==
    LET nreads == IF count > 0 THEN (count + 3) \div 4 ELSE 0
        stopped == plan.at >= 1 /\ plan.at <= nreads
        good == [k \in 1..nreads |->
                   [call |-> "read", page |-> start_page + 4 * (k - 1),
                    data |-> TagBytes(t, start_page + 4 * (k - 1), 16),
                    outcome |-> "ok"]]
        bad == [call |-> "read", page |-> start_page + 4 * (plan.at - 1),
                data |-> <<>>, outcome |-> plan.kind]
    IN IF stopped /\ plan.kind = "raise"
       THEN [success |-> FALSE, pages_data |-> None,
             io |-> SubSeq(good, 1, plan.at - 1) \o <<bad>>]
       ELSE [success |-> TRUE,
             pages_data |-> Some(TagBytes(t, start_page,
                                 4 * (IF count > 0 THEN count ELSE 0))),
             io |-> IF stopped
                    THEN SubSeq(good, 1, plan.at - 1) \o <<bad>>
                         \o SubSeq(good, plan.at, nreads)
                    ELSE good]

\* _read_pages that keeps all 16 bytes of every transport read
_read_pagesKeepsOverrun(start_page, count, t, plan) ==
    LET nreads == IF count > 0 THEN (count + 3) \div 4 ELSE 0
        stopped == plan.at >= 1 /\ plan.at <= nreads
        issued == IF stopped THEN plan.at ELSE nreads
    IN [success |-> ~stopped,
        pages_data |-> IF stopped THEN None
                       ELSE Some(TagBytes(t, start_page, 16 * nreads)),
        io |-> [k \in 1..issued |->
                   [call |-> "read", page |-> start_page + 4 * (k - 1),
                    data |-> IF stopped /\ k = plan.at THEN <<>>
                             ELSE TagBytes(t, start_page + 4 * (k - 1), 16),
                    outcome |-> IF stopped /\ k = plan.at THEN plan.kind
                                ELSE "ok"]]]

\* "while pages_read < count": one mifareultralight_ReadPage(current_page)
\* per turn, of which the first min(4, pages_remaining) pages are kept; a
\* read that reports failure or raises ends the call
RECURSIVE _read_pagesLoop(_, _, _, _, _, _, _)
_read_pagesLoop(count, t, plan, pages_read, current_page, pages_data, issued) ==
    IF ~(pages_read < count)
    THEN [success |-> TRUE, pages_data |-> Some(pages_data), io |-> issued]
    ELSE IF plan.at = Len(issued) + 1
    THEN [success |-> FALSE, pages_data |-> None,
          io |-> Append(issued, [call |-> "read", page |-> current_page,
                                 data |-> <<>>, outcome |-> plan.kind])]
    ELSE LET read_data == TagBytes(t, current_page, 16)
             pages_remaining == count - pages_read
             pages_to_take == Min(4, pages_remaining)
             bytes_to_take == pages_to_take * 4
         IN _read_pagesLoop(count, t, plan, pages_read + pages_to_take,
                            current_page + pages_to_take,
                            pages_data \o Slice(read_data, 0, bytes_to_take),
                            Append(issued, [call |-> "read",
                                            page |-> current_page,
                                            data |-> read_data,
                                            outcome |-> "ok"]))

\* _read_pages(start_page, count) -> (success, pages_data), with the page
\* reads it issued; every read returns the 16 bytes of 4 pages
_read_pages(start_page, count, t, plan) ==
    _read_pagesLoop(count, t, plan, 0, start_page, <<>>, <<>>)

\* _read_tag that returns the raw NDEF bytes only when the record did not
\* parse
_read_tagDropsRaw(t, plan) ==
    LET cc == _read_pages(3, 1, t, plan)
        tlv == _read_pages(4, 33, t, After(plan, Len(cc.io)))
        image == _parse_type2_memory(cc.pages_data[1], tlv.pages_data[1])
        record == _parse_ndef_uri_record(image.ndef_data[1])
        failed == [success |-> FALSE, url |-> None, raw_ndef |-> None,
                   metadata |-> None, uid |-> None, io |-> cc.io]
    IN IF ~cc.success THEN failed
       ELSE IF ~tlv.success THEN [failed EXCEPT !.io = cc.io \o tlv.io]
       ELSE IF ~image.success
       THEN [failed EXCEPT !.metadata = image.metadata, !.io = cc.io \o tlv.io]
       ELSE IF ~record.success
       THEN [failed EXCEPT !.raw_ndef = image.ndef_data,
                           !.metadata = image.metadata, !.io = cc.io \o tlv.io]
       ELSE [success |-> TRUE, url |-> record.url, raw_ndef |-> None,
             metadata |-> image.metadata, uid |-> None, io |-> cc.io \o tlv.io]

\* _read_tag that returns nothing of what it collected when a stage fails
_read_tagAllOrNothing(t, plan) ==
    LET cc == _read_pages(3, 1, t, plan)
        tlv == _read_pages(4, 33, t, After(plan, Len(cc.io)))
        image == _parse_type2_memory(cc.pages_data[1], tlv.pages_data[1])
        record == _parse_ndef_uri_record(image.ndef_data[1])
        failed == [success |-> FALSE, url |-> None, raw_ndef |-> None,
                   metadata |-> None, uid |-> None, io |-> cc.io]
    IN IF ~cc.success THEN failed
       ELSE IF ~tlv.success THEN [failed EXCEPT !.io = cc.io \o tlv.io]
       ELSE IF ~image.success THEN [failed EXCEPT !.io = cc.io \o tlv.io]
       ELSE IF ~record.success THEN [failed EXCEPT !.io = cc.io \o tlv.io]
       ELSE [success |-> TRUE, url |-> record.url, raw_ndef |-> image.ndef_data,
             metadata |-> image.metadata, uid |-> None, io |-> cc.io \o tlv.io]

\* _read_tag() -> (success, url, raw_ndef, metadata, uid)
_read_tag(t, plan) ==
    LET cc == _read_pages(3, 1, t, plan)
        tlv == _read_pages(4, 33, t, After(plan, Len(cc.io)))
        image == _parse_type2_memory(cc.pages_data[1], tlv.pages_data[1])
        record == _parse_ndef_uri_record(image.ndef_data[1])
        failed == [success |-> FALSE, url |-> None, raw_ndef |-> None,
                   metadata |-> None, uid |-> None, io |-> cc.io]
    IN IF ~cc.success THEN failed
       ELSE IF ~tlv.success THEN [failed EXCEPT !.io = cc.io \o tlv.io]
       ELSE IF ~image.success
       THEN [failed EXCEPT !.metadata = image.metadata, !.io = cc.io \o tlv.io]
       ELSE IF ~record.success
       THEN [failed EXCEPT !.raw_ndef = image.ndef_data,
                           !.metadata = image.metadata, !.io = cc.io \o tlv.io]
       ELSE [success |-> TRUE, url |-> record.url, raw_ndef |-> image.ndef_data,
             metadata |-> image.metadata, uid |-> None, io |-> cc.io \o tlv.io]

\* _verify_tag that reports a mismatch as a failed verification
_verify_tagMismatchFails(expected_url, t, plan) ==
    LET read == _read_tag(t, plan)
    IN IF ~read.success \/ read.url # Some(expected_url)
       THEN [success |-> FALSE, match |-> FALSE, actual_url |-> None,
             io |-> read.io]
       ELSE [success |-> TRUE, match |-> TRUE, actual_url |-> read.url,
             io |-> read.io]

\* _verify_tag(expected_url) -> (success, match, actual_url)
_verify_tag(expected_url, t, plan) ==
    LET read == _read_tag(t, plan)
    IN IF ~read.success
       THEN [success |-> FALSE, match |-> FALSE, actual_url |-> None,
             io |-> read.io]
       ELSE [success |-> TRUE, match |-> read.url = Some(expected_url),
             actual_url |-> read.url, io |-> read.io]

-----------------------------------------------------------------------------
(* Inputs of the tag operations *)

\* operations called on one tag
MaxOps == 2

\* latest transport call of an operation that misbehaves
MaxFaultAt == 3

Plans == {NoFault} \cup {[at |-> n, kind |-> k] : n \in 1..MaxFaultAt,
                                                   k \in {"fail", "raise"}}

\* 'http://a', 'https://www.a', 'ftp://a', and 'http://' followed by 137 and
\* by 255 letters: a TLV region of 148 bytes (pages 4..40), and a payload
\* length of 256
TagUrls == {Http \o <<97>>, OtherUrl, Ftp \o <<97>>,
            Http \o Fill(137, 97), Http \o Fill(255, 97)}

\* the Capability Container the writer writes
WriterCc == <<225, 16, 18, 0>>

\* Tags in the field: a blank tag; tags whose NDEF message is a URI record for
\* 'http://a' or 'https://www.a' followed by one more byte, at the start of
\* the data area or after two null TLVs; a tag with only a terminator; a tag
\* with a wrong magic byte; a tag with a text record; a tag whose URI is not
\* UTF-8
TagImages ==
    { <<>>,
      WriterCc \o <<3, 7, 209, 1, 2, 85, 3, 97, 0, 254>>,
      WriterCc \o <<3, 7, 209, 1, 2, 85, 2, 97, 0, 254>>,
      WriterCc \o <<0, 0, 3, 7, 209, 1, 2, 85, 3, 97, 0, 254>>,
      WriterCc \o <<254, 0, 0, 0>>,
      <<0, 16, 18, 0>> \o <<3, 7, 209, 1, 2, 85, 3, 97, 0, 254>>,
      WriterCc \o <<3, 7, 209, 1, 2, 84, 3, 97, 0, 254>>,
      WriterCc \o <<3, 7, 209, 1, 2, 85, 3, 255, 0, 254>> }

\* arguments of direct _write_pages calls: 0, 1, 4, 5 and 13 bytes
PageData == {Fill(n, 7) : n \in {0, 1, 4}} \cup {<<1, 2, 3, 4, 5>>}
                \cup {<<1, 2, 3, 4, 5, 6, 7, 8, 9, 10, 11, 12, 13>>}
StartPages == {3, 4, 9}

\* page counts of direct _read_pages calls: the two counts _read_tag uses, a
\* whole number of reads, and counts that leave 1, 2 and 3 pages of overrun
PageCounts == {0, 1, 2, 3, 4, 5, 33}

-----------------------------------------------------------------------------
(* The reader/writer working on a tag *)

InitTag ==
    /\ url = None /\ ndef_in = None /\ rec = None /\ dec = None
    /\ mem = None /\ memdec = None /\ reads = <<>> /\ walk = None
    /\ EmuIdle
    /\ tag \in TagImages /\ op = None /\ ret = None /\ io = <<>>

\* number of operations called so far
OpCount == IF op = None THEN 0 ELSE op[1].n

Called(name, u, start_page, data, plan) ==
    Some([n |-> OpCount + 1, name |-> name, url |-> u, page |-> start_page,
          data |-> data, plan |-> plan])

WriteTag ==
    /\ OpCount < MaxOps
    /\ \E u \in TagUrls, plan \in Plans :
          LET r == _write_tag(u, tag, plan)
          IN /\ op' = Called("_write_tag", Some(u), 0, <<>>, plan)
             /\ ret' = Some([success |-> r.success, message |-> r.message])
             /\ io' = r.io
             /\ tag' = r.tag
    /\ UNCHANGED codecVars
    /\ UNCHANGED emuVars

ReadTag ==
    /\ OpCount < MaxOps
    /\ \E plan \in Plans :
          LET r == _read_tag(tag, plan)
          IN /\ op' = Called("_read_tag", None, 0, <<>>, plan)
             /\ ret' = Some([success |-> r.success, url |-> r.url,
                             raw_ndef |-> r.raw_ndef, metadata |-> r.metadata,
                             uid |-> r.uid])
             /\ io' = r.io
    /\ UNCHANGED tag
    /\ UNCHANGED codecVars
    /\ UNCHANGED emuVars

VerifyTag ==
    /\ OpCount < MaxOps
    /\ \E expected_url \in TagUrls, plan \in Plans :
          LET r == _verify_tag(expected_url, tag, plan)
          IN /\ op' = Called("_verify_tag", Some(expected_url), 0, <<>>, plan)
             /\ ret' = Some([success |-> r.success, match |-> r.match,
                             actual_url |-> r.actual_url])
             /\ io' = r.io
    /\ UNCHANGED tag
    /\ UNCHANGED codecVars
    /\ UNCHANGED emuVars

WritePages ==
    /\ op = None
    /\ \E start_page \in StartPages, data \in PageData, plan \in Plans :
          LET r == _write_pages(start_page, data, tag, plan)
          IN /\ op' = Called("_write_pages", None, start_page, data, plan)
             /\ ret' = Some([success |-> r.success, message |-> r.message])
             /\ io' = r.io
             /\ tag' = r.tag
    /\ UNCHANGED codecVars
    /\ UNCHANGED emuVars

\* a direct call _read_pages(start_page, count)
ReadPages ==
    /\ op = None
    /\ \E start_page \in StartPages, count \in PageCounts, plan \in Plans :
          LET r == _read_pages(start_page, count, tag, plan)
          IN /\ op' = Some([n |-> 1, name |-> "_read_pages", url |-> None,
                            page |-> start_page, data |-> <<>>,
                            plan |-> plan, count |-> count])
             /\ ret' = Some([success |-> r.success,
                             pages_data |-> r.pages_data])
             /\ io' = r.io
    /\ UNCHANGED tag
    /\ UNCHANGED codecVars
    /\ UNCHANGED emuVars

SpecTag == InitTag /\ [][WriteTag \/ ReadTag \/ VerifyTag]_vars

\* direct calls of the page helpers, one per tag
SpecPages == InitTag /\ [][WritePages \/ ReadPages]_vars

-----------------------------------------------------------------------------
(* G-code commands of the reader/writer (src/klippy_nfc.py) *)

\* "for attempt in range(5)"
FirmwareAttempts == 5

\* _init_pn532(): library is what the import and the two constructors do
\* ("ok", "missing": ImportError, "raises": Pn532Spi or Pn532 raises), begin
\* and sam are what begin() and SAMConfig() do ("ok" or "raises"), answers[k]
\* is what the k-th getFirmwareVersion call does ("valid": returns a nonzero
\* version, "zero": returns 0, "none": returns None, "raises"). self.nfc is assigned before
\* begin(), so it is set whenever the constructors returned. The retry log
\* line formats the version with ":#x", which raises TypeError on None; every
\* exception ends in "return False". attempts counts the getFirmwareVersion
\* calls made.
_init_pn532(library, begin, answers, sam, old_nfc) ==
    LET RECURSIVE Loop(_)
        \* "for attempt in range(5)": the result of the loop from this attempt
        Loop(attempt) ==
            LET version == answers[attempt + 1]
            IN IF version = "raises"
               THEN [raised |-> TRUE, version |-> "none", calls |-> attempt + 1]
               ELSE IF version = "valid"
               THEN [raised |-> FALSE, version |-> version,
                     calls |-> attempt + 1]
               ELSE IF attempt < FirmwareAttempts - 1
               THEN IF version = "none"
                    THEN [raised |-> TRUE, version |-> version,
                          calls |-> attempt + 1]
                    ELSE Loop(attempt + 1)
               ELSE [raised |-> FALSE, version |-> version,
                     calls |-> attempt + 1]
        loop == Loop(0)
    IN IF library # "ok"
       THEN [success |-> FALSE, nfc |-> old_nfc, attempts |-> 0]
       ELSE IF begin = "raises"
       THEN [success |-> FALSE, nfc |-> Some("pn532"), attempts |-> 0]
       ELSE [success |-> /\ ~loop.raised /\ loop.version = "valid"
                         /\ sam = "ok",
             nfc |-> Some("pn532"),
             attempts |-> loop.calls]

\* gcode.respond_info(f"..."): the literal text and the values put into it
respond_info(text, args) == [text |-> text, args |-> args]

\* the answer of a command that finds self.nfc unset
NotInitialized == respond_info("Error: PN532 not initialized", <<>>)

\* what readPassiveTargetID does: returns a 7-byte UID, returns success with
\* an empty UID, returns no success, or raises
ScanOutcomes == {"found", "empty_uid", "none", "raises"}

\* _scan_for_tag(timeout_ms) -> (success, uid), with the transport call
_scan_for_tag(outcome) ==
    LET uid == IF outcome = "found" THEN <<4, 17, 34, 51, 68, 85, 102>>
               ELSE <<>>
    IN [success |-> outcome = "found",
        uid |-> IF outcome = "found" THEN Some(uid) ELSE None,
        io |-> <<[call |-> "scan", page |-> 0, data |-> uid,
                  outcome |-> IF outcome = "raises" THEN "raise"
                              ELSE IF outcome = "none" THEN "fail" ELSE "ok"]>>]

\* a printer whose reader/writer object was constructed: self.nfc = None,
\* self.last_write_status = "Not written yet", self.last_write_time = None;
\* a blank tag or a tag holding 'https://www.a' lies on the reader
InitCmd ==
    /\ url = None /\ ndef_in = None /\ rec = None /\ dec = None
    /\ mem = None /\ memdec = None /\ reads = <<>> /\ walk = None
    /\ EmuIdle
    /\ tag \in {<<>>, WriterCc \o <<3, 7, 209, 1, 2, 85, 2, 97, 0, 254>>}
    /\ op = None /\ io = <<>>
    /\ ret = Some([responses |-> <<>>, last_write_status |-> "Not written yet",
                   last_write_time |-> None])

\* klippy:ready: handle_ready() of KlippyNFC, configured with url = 'http://a';
\* op keeps what _init_pn532 returned (init) for the commands that follow
KlippyReady ==
    /\ klippy = "starting"
    /\ \E library \in {"ok", "missing", "raises"},
          begin \in {"ok", "raises"}, sam \in {"ok", "raises"},
          answers \in [1..FirmwareAttempts ->
                          {"valid", "zero", "none", "raises"}] :
          LET r == _init_pn532(library, begin, answers, sam, nfc)
          IN /\ nfc' = r.nfc
             /\ op' = Some([n |-> 0, name |-> "handle_ready", url |-> None,
                            page |-> 0, data |-> <<>>, plan |-> NoFault,
                            init |-> r.success, attempts |-> r.attempts])
    /\ current_url' = Some(Http \o <<97>>)
    /\ klippy' = "ready"
    /\ UNCHANGED <<mainPc, emulation_thread, running, error_count, thr,
                   failRun>>
    /\ UNCHANGED <<tag, ret, io>>
    /\ UNCHANGED codecVars

\* the record of a command call: its name, its URL argument, the fault plan of
\* its page reads and writes
Commanded(name, u, plan) ==
    Some([n |-> op[1].n + 1, name |-> name, url |-> u, page |-> 0,
          data |-> <<>>, plan |-> plan, init |-> op[1].init,
          attempts |-> op[1].attempts])

\* what a command leaves: the lines it answered, self.last_write_status and
\* self.last_write_time (None or the time of the last write attempt)
Answered(responses, status, write_time) ==
    Some([responses |-> responses, last_write_status |-> status,
          last_write_time |-> write_time])

\* NFC_WRITE_TAG [URL=...]
CmdWriteTag ==
    /\ klippy = "ready" /\ op[1].n < MaxOps
    /\ \E u \in {current_url[1], OtherUrl}, outcome \in ScanOutcomes,
          plan \in Plans :
          LET scan == _scan_for_tag(outcome)
              r == _write_tag(u, tag, plan)
          IN /\ outcome # "found" => plan = NoFault
             /\ op' = Commanded("NFC_WRITE_TAG", Some(u), plan)
             /\ IF nfc = None
                THEN /\ ret' = Answered(<<NotInitialized>>,
                                        ret[1].last_write_status,
                                        ret[1].last_write_time)
                     /\ io' = <<>> /\ tag' = tag
                ELSE IF ~scan.success
                THEN /\ ret' = Answered(
                           <<respond_info("Scanning for NFC tag...", <<>>),
                             respond_info("Error: No NFC tag detected. Place tag on reader and try again.", <<>>)>>,
                           "Failed: No tag detected", Some("time.time()"))
                     /\ io' = scan.io /\ tag' = tag
                ELSE /\ ret' = Answered(
                           <<respond_info("Scanning for NFC tag...", <<>>),
                             respond_info("Tag detected: ", <<scan.uid[1]>>),
                             respond_info("Writing URL: ", <<u>>),
                             respond_info(IF r.success THEN "Success! "
                                          ELSE "Error: ", <<r.message>>)>>,
                           r.message, Some("time.time()"))
                     /\ io' = scan.io \o r.io /\ tag' = r.tag
    /\ UNCHANGED emuVars
    /\ UNCHANGED codecVars

\* NFC_READ_TAG
CmdReadTag ==
    /\ klippy = "ready" /\ op[1].n < MaxOps
    /\ \E outcome \in ScanOutcomes, plan \in Plans :
          LET scan == _scan_for_tag(outcome)
              r == _read_tag(tag, plan)
              head == <<respond_info("Scanning for NFC tag...", <<>>)>>
              found == head \o
                       <<respond_info("Tag detected: ", <<scan.uid[1]>>),
                         respond_info("Reading tag...", <<>>)>>
              md == r.metadata[1]
          IN /\ outcome # "found" => plan = NoFault
             /\ op' = Commanded("NFC_READ_TAG", None, plan)
             /\ IF nfc = None
                THEN /\ ret' = Answered(<<NotInitialized>>,
                                        ret[1].last_write_status,
                                        ret[1].last_write_time)
                     /\ io' = <<>>
                ELSE IF ~scan.success
                THEN /\ ret' = Answered(head \o <<respond_info("Error: No NFC tag detected. Place tag on reader and try again.", <<>>)>>,
                                        ret[1].last_write_status,
                                        ret[1].last_write_time)
                     /\ io' = scan.io
                ELSE IF ~r.success
                THEN /\ ret' = Answered(
                           found \o <<respond_info(
                               "Error: Failed to read tag data", <<>>)>>,
                           ret[1].last_write_status,
                                        ret[1].last_write_time)
                     /\ io' = scan.io \o r.io
                ELSE /\ ret' = Answered(
                           found \o
                           <<respond_info("=== Tag Details ===", <<>>),
                             respond_info("UID: ", <<scan.uid[1]>>),
                             respond_info("URL: ", <<r.url[1]>>)>> \o
                           (IF r.metadata # None
                            THEN <<respond_info("Tag Version: ",
                                       <<md.version_major, md.version_minor>>),
                                   respond_info("Memory Size: ",
                                       <<md.memory_size>>),
                                   respond_info("Access: ",
                                       <<md.read_access, md.write_access>>)>>
                            ELSE <<>>) \o
                           (IF r.raw_ndef # None /\ r.raw_ndef # Some(<<>>)
                            THEN <<respond_info("NDEF Length: ",
                                       <<Len(r.raw_ndef[1])>>),
                                   respond_info("NDEF Data: ",
                                       <<r.raw_ndef[1]>>)>>
                            ELSE <<>>) \o
                           <<respond_info("===================", <<>>)>>,
                           ret[1].last_write_status,
                                        ret[1].last_write_time)
                     /\ io' = scan.io \o r.io
    /\ UNCHANGED tag
    /\ UNCHANGED emuVars
    /\ UNCHANGED codecVars

\* NFC_VERIFY_TAG [URL=...]
CmdVerifyTag ==
    /\ klippy = "ready" /\ op[1].n < MaxOps
    /\ \E expected_url \in {current_url[1], OtherUrl},
          outcome \in ScanOutcomes, plan \in Plans :
          LET scan == _scan_for_tag(outcome)
              r == _verify_tag(expected_url, tag, plan)
              head == <<respond_info("Scanning for NFC tag...", <<>>)>>
              found == head \o
                       <<respond_info("Tag detected: ", <<scan.uid[1]>>),
                         respond_info("Verifying against expected URL: ",
                                      <<expected_url>>)>>
          IN /\ outcome # "found" => plan = NoFault
             /\ op' = Commanded("NFC_VERIFY_TAG", Some(expected_url), plan)
             /\ IF nfc = None
                THEN /\ ret' = Answered(<<NotInitialized>>,
                                        ret[1].last_write_status,
                                        ret[1].last_write_time)
                     /\ io' = <<>>
                ELSE IF ~scan.success
                THEN /\ ret' = Answered(head \o <<respond_info("Error: No NFC tag detected. Place tag on reader and try again.", <<>>)>>,
                                        ret[1].last_write_status,
                                        ret[1].last_write_time)
                     /\ io' = scan.io
                ELSE /\ ret' = Answered(
                           found \o
                           (IF ~r.success
                            THEN <<respond_info(
                                     "Error: Failed to read tag for verification",
                                     <<>>)>>
                            ELSE IF r.match
                            THEN <<respond_info(
                                     "SUCCESS: Tag URL matches expected URL",
                                     <<>>)>>
                            ELSE <<respond_info(
                                     "MISMATCH: Tag contains different URL",
                                     <<>>),
                                   respond_info("  Expected: ",
                                                <<expected_url>>),
                                   respond_info("  Actual:   ",
                                                <<r.actual_url[1]>>)>>),
                           ret[1].last_write_status,
                                        ret[1].last_write_time)
                     /\ io' = scan.io \o r.io
    /\ UNCHANGED tag
    /\ UNCHANGED emuVars
    /\ UNCHANGED codecVars

\* NFC_TAG_INFO
CmdTagInfo ==
    /\ klippy = "ready" /\ op[1].n < MaxOps
    /\ \E outcome \in ScanOutcomes, plan \in Plans :
          LET scan == _scan_for_tag(outcome)
              r == _read_pages(3, 1, tag, plan)
              uid == scan.uid[1]
              tag_type ==
                  IF Len(uid) = 4 THEN "MIFARE Classic or Ultralight"
                  ELSE IF Len(uid) = 7
                  THEN "NTAG or MIFARE Ultralight (7-byte UID)"
                  ELSE IF Len(uid) = 10 THEN "MIFARE DESFire or Plus"
                  ELSE "Unknown"
              head == <<respond_info("Scanning for NFC tag...", <<>>)>>
              cc_info ==
                  LET md == CcMetadata(r.pages_data[1])
                  IN IF md.magic = 225
                     THEN <<respond_info("Format: NDEF (Type 2 Tag)", <<>>),
                            respond_info("NDEF Version: ",
                                         <<md.version_major, md.version_minor>>),
                            respond_info("Memory Capacity: ", <<md.memory_size>>),
                            respond_info("Read Access: ",
                                IF md.read_access = 0 THEN <<"Allowed">>
                                ELSE <<"Restricted (code ", md.read_access>>),
                            respond_info("Write Access: ",
                                IF md.write_access = 0 THEN <<"Allowed">>
                                ELSE IF md.write_access = 15 THEN <<"Write-Protected">>
                                ELSE <<"Restricted (code ", md.write_access>>),
                            respond_info("CC Bytes: ", <<r.pages_data[1]>>)>>
                     ELSE <<respond_info("Format: Non-NDEF or unformatted (CC magic: ",
                                         <<md.magic>>)>>
          IN /\ outcome # "found" => plan = NoFault
             /\ op' = Commanded("NFC_TAG_INFO", None, plan)
             /\ IF nfc = None
                THEN /\ ret' = Answered(<<NotInitialized>>,
                                        ret[1].last_write_status,
                                        ret[1].last_write_time)
                     /\ io' = <<>>
                ELSE IF ~scan.success
                THEN /\ ret' = Answered(head \o <<respond_info("Error: No NFC tag detected. Place tag on reader and try again.", <<>>)>>,
                                        ret[1].last_write_status,
                                        ret[1].last_write_time)
                     /\ io' = scan.io
                ELSE /\ ret' = Answered(
                           head \o
                           <<respond_info("=== Tag Information ===", <<>>),
                             respond_info("UID: ", <<uid>>),
                             respond_info("UID Length: ", <<Len(uid)>>),
                             respond_info("Tag Type: ", <<tag_type>>)>> \o
                           (IF r.success THEN cc_info
                            ELSE <<respond_info(
                                     "Could not read Capability Container",
                                     <<>>)>>) \o
                           <<respond_info("=======================", <<>>)>>,
                           ret[1].last_write_status,
                                        ret[1].last_write_time)
                     /\ io' = scan.io \o r.io
    /\ UNCHANGED tag
    /\ UNCHANGED emuVars
    /\ UNCHANGED codecVars

\* NFC_SET_URL URL=...
CmdNfcSetUrl ==
    /\ klippy = "ready" /\ op[1].n < MaxOps
    /\ \E u \in {Ftp \o <<120>>, OtherUrl} :
          /\ current_url' = Some(u)
          /\ op' = Commanded("NFC_SET_URL", Some(u), NoFault)
          /\ ret' = Answered(<<respond_info("NFC URL updated to: ", <<u>>)>>,
                             ret[1].last_write_status,
                             ret[1].last_write_time)
    /\ io' = <<>>
    /\ UNCHANGED tag
    /\ UNCHANGED <<klippy, mainPc, nfc, emulation_thread, running,
                   error_count, thr, failRun>>
    /\ UNCHANGED codecVars

\* NFC_STATUS
CmdNfcStatus ==
    /\ klippy = "ready" /\ op[1].n < MaxOps
    /\ op' = Commanded("NFC_STATUS", None, NoFault)
    /\ ret' = Answered(
           <<respond_info("Current URL: ", <<current_url[1]>>),
             respond_info("Last write: ", <<ret[1].last_write_status>>)>> \o
           (IF ret[1].last_write_time # None
            THEN <<respond_info("Write time: ", <<ret[1].last_write_time[1]>>)>>
            ELSE <<>>),
           ret[1].last_write_status, ret[1].last_write_time)
    /\ io' = <<>>
    /\ UNCHANGED tag
    /\ UNCHANGED emuVars
    /\ UNCHANGED codecVars

NextCmd ==
    \/ KlippyReady \/ CmdNfcStatus \/ CmdNfcSetUrl
    \/ CmdWriteTag \/ CmdReadTag \/ CmdVerifyTag \/ CmdTagInfo

SpecCmd == InitCmd /\ [][NextCmd]_vars

-----------------------------------------------------------------------------
(* Claims about the tag operations *)

LastOp == op[1]
Returned == ret[1]
IsOp(name) == op # None /\ LastOp.name = name

\* C11: _write_tag writes page 3 first and then pages 4, 5, ... in ascending
\* consecutive order, a TLV page only after the CC write succeeded; a write
\* that does not succeed is the last one issued; when the transport reported
\* it as failed the result is a failure whose message names that page; every
\* page written before it keeps its new content; and the result is a success
\* only if every write succeeded.
C11_WriteOrderAndAbort ==
    IsOp("_write_tag") =>
        /\ \A k \in 1..Len(io) :
              /\ io[k].call = "write" /\ io[k].page = 2 + k
              /\ k >= 2 => io[1].outcome = "ok"
              /\ io[k].outcome # "ok" => k = Len(io)
              /\ io[k].outcome = "fail"
                 => ~Returned.success /\ Returned.message.nums = <<io[k].page>>
              /\ io[k].outcome = "ok" => TagBytes(tag, io[k].page, 4) = io[k].data
        /\ Returned.success => \A k \in 1..Len(io) : io[k].outcome = "ok"

\* C11 witness: the write of the second TLV page (page 5) was reported as
\* failed after pages 3 and 4 were written.
C11_Witness ==
    /\ IsOp("_write_tag") /\ Len(io) = 3
    /\ io[3].outcome = "fail" /\ io[3].page = 5
    /\ ~Returned.success /\ Returned.message.nums = <<5>>
    /\ TagBytes(tag, 3, 4) = WriterCc

\* what _read_tag returns for the tag and the transport outcomes of the last
\* operation
ReadOfLastOp == _read_tag(tag, LastOp.plan)

\* C12: _verify_tag(expected) succeeds exactly when _read_tag succeeds; then
\* match is true exactly when the URL read equals expected and the URL read is
\* returned, a mismatch being (success, no match, actual URL); a failed read
\* is returned as (failure, no match, None).
C12_VerifyTag ==
    IsOp("_verify_tag") =>
        /\ Returned.success = ReadOfLastOp.success
        /\ Returned.success =>
              /\ Returned.actual_url = ReadOfLastOp.url
              /\ Returned.actual_url # None
              /\ Returned.match = (Returned.actual_url = LastOp.url)
        /\ ~Returned.success =>
              Returned = [success |-> FALSE, match |-> FALSE,
                          actual_url |-> None]

\* C12 witness: a tag holding 'https://www.a' verified against 'http://a':
\* the read succeeded and the mismatch was returned with the URL read.
C12_Witness ==
    /\ IsOp("_verify_tag") /\ LastOp.url = Some(Http \o <<97>>)
    /\ Returned.success /\ ~Returned.match
    /\ Returned.actual_url = Some(OtherUrl)

\* C13: every result of _read_tag with success = true carries a URL, the raw
\* NDEF bytes and the CC metadata (none of them None), and every result with
\* success = false carries no URL.
C13_ReadResultConsistent ==
    IsOp("_read_tag") =>
        /\ Returned.success =>
              /\ Returned.url # None
              /\ Returned.raw_ndef # None
              /\ Returned.metadata # None
        /\ ~Returned.success => Returned.url = None

\* C13 witness: a read that returned 'http://a' with the 7 raw NDEF bytes of
\* its record and the metadata of the CC.
C13_Witness ==
    /\ IsOp("_read_tag") /\ Returned.success
    /\ Returned.url = Some(Http \o <<97>>)
    /\ Returned.raw_ndef = Some(<<209, 1, 2, 85, 3, 97, 0>>)
    /\ Returned.metadata # None

\* the payload length of the record for a URL: the code byte and the UTF-8
\* bytes of what follows the prefix
PayloadLength(u) == 1 + Len(Utf8Encode(uri_data_of(u)))

\* C16: _write_tag called with a URL whose payload length exceeds 255 returns
\* a failure and issues no page write.
C16_OversizePayloadRejected ==
    (IsOp("_write_tag") /\ PayloadLength(LastOp.url[1]) > 255)
        => (~Returned.success /\ io = <<>>)

\* C16 witness: _write_tag('http://' and 255 letters), payload length 256,
\* returned failure with no page written.
C16_Witness ==
    /\ IsOp("_write_tag") /\ LastOp.url = Some(Http \o Fill(255, 97))
    /\ PayloadLength(LastOp.url[1]) = 256
    /\ LastOp.plan = NoFault
    /\ ~Returned.success /\ io = <<>>

\* the page writes of the last operation that went to the TLV region
TlvWrites == {k \in 1..Len(io) : io[k].page >= 4}

\* C17 (as stated): whenever _write_tag wrote pages, the data area the
\* written Capability Container declares (its size byte times 8 bytes, from
\* page 4 on) is at least the number of TLV-region bytes written, and no
\* page above 39 was written.
C17_WithinDeclaredCapacity ==
    (IsOp("_write_tag") /\ io # <<>>) =>
        /\ 4 * Cardinality(TlvWrites) <= At(io[1].data, 2) * 8
        /\ \A k \in 1..Len(io) : io[k].page <= 39

\* ceil(n / 4)
PagesFor(n) == (n + 3) \div 4

\* byte i (0-based) of data padded with zeros
PaddedByte(data, i) == IF i < Len(data) THEN At(data, i) ELSE 0

\* C18: _write_pages(s, data) with n = len(data) > 0 and every write
\* succeeding issues exactly ceil(n / 4) page writes, the k-th (from 0) to
\* page s + k with the 4 bytes 4k .. 4k+3 of the zero-padded data, and
\* reports success.
C18_PageWritePlan ==
    (IsOp("_write_pages") /\ Len(LastOp.data) > 0 /\ LastOp.plan = NoFault) =>
        /\ Returned.success
        /\ Len(io) = PagesFor(Len(LastOp.data))
        /\ \A k \in 0..(Len(io) - 1) :
              /\ io[k + 1].call = "write" /\ io[k + 1].outcome = "ok"
              /\ io[k + 1].page = LastOp.page + k
              /\ io[k + 1].data = [j \in 1..4 |->
                                      PaddedByte(LastOp.data, 4 * k + j - 1)]

\* C18 witness: 13 bytes written from page 4 went to pages 4, 5, 6, 7, the
\* last one carrying byte 13 and three zeros.
C18_Witness ==
    /\ IsOp("_write_pages") /\ LastOp.page = 4 /\ Len(LastOp.data) = 13
    /\ LastOp.plan = NoFault
    /\ [k \in 1..Len(io) |-> io[k].page] = <<4, 5, 6, 7>>
    /\ io[4].data = <<13, 0, 0, 0>>

\* C22: within one _write_tag call no page number is written twice, within
\* one _read_tag call no page number is the start of two transport reads, and
\* a transport call that reported failure is the last call of the operation,
\* which returns a failure.
C22_NoRetries ==
    (IsOp("_write_tag") \/ IsOp("_read_tag")) =>
        /\ \A j, k \in 1..Len(io) : j < k => io[j].page # io[k].page
        /\ \A k \in 1..Len(io) :
              io[k].outcome = "fail" => (k = Len(io) /\ ~Returned.success)

\* C22 witness: a _read_tag whose third page read (page 8) was reported as
\* failed: the reads went to pages 3, 4, 8 and the result is a failure.
C22_Witness ==
    /\ IsOp("_read_tag") /\ ~Returned.success
    /\ [k \in 1..Len(io) |-> io[k].page] = <<3, 4, 8>>
    /\ io[3].outcome = "fail"

\* the Capability Container page and the 33 pages after it as the tag holds
\* them, and what the two parsers make of them
TagCc == TagBytes(tag, 3, 4)
TagTlv == TagBytes(tag, 4, 132)
TagImage == _parse_type2_memory(TagCc, TagTlv)
TagRecord == _parse_ndef_uri_record(TagImage.ndef_data[1])

\* every field of a read result absent
NothingRead ==
    [success |-> FALSE, url |-> None, raw_ndef |-> None, metadata |-> None,
     uid |-> None]

\* C23: _read_tag reads at page 3 first and then at pages 4, 8, ..., 36, and
\* stops at the first stage that fails: a transport read that did not succeed
\* gives a result with every field absent; a Capability Container that is
\* refused gives a failure with no metadata; a valid Capability Container
\* with a failing TLV walk gives a failure with the metadata and neither URL
\* nor raw NDEF; a TLV walk that succeeds with a failing NDEF decode gives a
\* failure with the metadata and the raw NDEF bytes and no URL.
C23_StagedFailure ==
    IsOp("_read_tag") =>
        /\ \A k \in 1..Len(io) :
              /\ io[k].call = "read"
              /\ io[k].page = IF k = 1 THEN 3 ELSE 4 * (k - 1)
              /\ io[k].outcome # "ok" => k = Len(io)
        /\ IF \E k \in 1..Len(io) : io[k].outcome # "ok"
           THEN Returned = NothingRead
           ELSE /\ Len(io) = 10
                /\ IF TagImage.metadata = None THEN Returned = NothingRead
                   ELSE IF ~TagImage.success
                   THEN Returned = [NothingRead EXCEPT
                                       !.metadata = TagImage.metadata]
                   ELSE IF ~TagRecord.success
                   THEN Returned = [NothingRead EXCEPT
                                       !.metadata = TagImage.metadata,
                                       !.raw_ndef = TagImage.ndef_data]
                   ELSE Returned.success

\* C23 witness: a tag with a valid Capability Container and a text record: the
\* TLV walk gave the 7 record bytes, the NDEF decode failed, and the result
\* carries the metadata and the raw bytes without a URL.
C23_Witness ==
    /\ IsOp("_read_tag") /\ Len(io) = 10 /\ ~Returned.success
    /\ Returned.url = None
    /\ Returned.raw_ndef = Some(<<209, 1, 2, 84, 3, 97, 0>>)
    /\ Returned.metadata # None /\ Returned.metadata[1].memory_size = 144

\* C26: _read_pages(s, c) with c >= 1 and every read succeeding issues
\* exactly ceil(c / 4) transport reads, the k-th (from 0) at page s + 4k, and
\* returns exactly 4c bytes in which the 4 bytes of page N are at offset
\* (N - s) * 4; what the last read returned beyond page s + c - 1 is dropped.
C26_PageReadPlan ==
    (IsOp("_read_pages") /\ LastOp.count >= 1 /\ LastOp.plan = NoFault) =>
        /\ Returned.success
        /\ Len(io) = PagesFor(LastOp.count)
        /\ \A k \in 0..(Len(io) - 1) :
              /\ io[k + 1].call = "read" /\ io[k + 1].outcome = "ok"
              /\ io[k + 1].page = LastOp.page + 4 * k
              /\ Len(io[k + 1].data) = 16
        /\ Len(Returned.pages_data[1]) = 4 * LastOp.count
        /\ \A N \in LastOp.page..(LastOp.page + LastOp.count - 1) :
              Slice(Returned.pages_data[1], (N - LastOp.page) * 4,
                    (N - LastOp.page) * 4 + 4) = TagBytes(tag, N, 4)

\* C26 witness: 5 pages read from page 3 of a written tag took reads at pages
\* 3 and 7 and returned 20 bytes, page 4 (the start of the TLV) at offset 4.
C26_Witness ==
    /\ IsOp("_read_pages") /\ LastOp.page = 3 /\ LastOp.count = 5
    /\ LastOp.plan = NoFault /\ Len(tag) > 8
    /\ [k \in 1..Len(io) |-> io[k].page] = <<3, 7>>
    /\ Len(Returned.pages_data[1]) = 20
    /\ Slice(Returned.pages_data[1], 4, 8) = Slice(tag, 4, 8)
    /\ Slice(tag, 4, 8) # <<0, 0, 0, 0>>

\* the TLV region built for the URL fits in the 33 pages _read_tag reads
FitsReadWindow(u) ==
    LET built == _build_ndef_uri_record(u)
    IN /\ ~built.raised
       /\ Len(_build_type2_memory(built.bytes).tlv_bytes) <= 33 * 4

\* C29: when _write_tag(url) has returned success for a URL whose TLV region
\* fits in the 33-page read window, a _read_tag that follows with every page
\* read succeeding returns success with that URL, and a _verify_tag(url) that
\* follows returns success with match = true.
C29_WriteThenVerify ==
    [][(/\ IsOp("_write_tag") /\ Returned.success
        /\ FitsReadWindow(LastOp.url[1])
        /\ op' # op /\ op'[1].plan = NoFault)
          => /\ op'[1].name = "_read_tag"
                  => (ret'[1].success /\ ret'[1].url = LastOp.url)
             /\ (op'[1].name = "_verify_tag" /\ op'[1].url = LastOp.url)
                  => (ret'[1].success /\ ret'[1].match)]_vars

\* C31: when _init_pn532 returned failure at klippy:ready, every later
\* NFC_WRITE_TAG, NFC_READ_TAG, NFC_VERIFY_TAG and NFC_TAG_INFO answers
\* 'PN532 not initialized' and nothing else, and issues no scan, page read or
\* page write on the transport.
C31_InitGuard ==
    (/\ op # None
     /\ LastOp.name \in {"NFC_WRITE_TAG", "NFC_READ_TAG", "NFC_VERIFY_TAG",
                         "NFC_TAG_INFO"}
     /\ ~LastOp.init)
        => (Returned.responses = <<NotInitialized>> /\ io = <<>>)

-----------------------------------------------------------------------------
(* Claims about the record builders *)

\* the URI code and the URI bytes of a built record
RecordCode(r) == At(r.bytes, 4)
RecordData(r) == Slice(r.bytes, 5, Len(r.bytes))

\* the URL without its first n characters, as UTF-8
Utf8After(u, n) == Utf8Encode(SubSeq(u, n + 1, Len(u)))

\* C15: a built record carries the code of the first of http://www. (1),
\* https://www. (2), http:// (3), https:// (4) that the URL starts with and
\* the rest of the URL as suffix, else code 0 and the whole URL; so a URL
\* starting with https://www. gets 2 and never 4, one starting with
\* http://www. gets 1 and never 3; the emulator's builder gives the same
\* record.
C15_PrefixSelection ==
    (rec # None /\ ~rec[1].raised) =>
        LET u == url[1]
            code == RecordCode(rec[1])
            data == RecordData(rec[1])
        IN /\ StartsWith(u, HttpWww) => code = 1 /\ data = Utf8After(u, 11)
           /\ StartsWith(u, HttpsWww) => code = 2 /\ data = Utf8After(u, 12)
           /\ (StartsWith(u, Http) /\ ~StartsWith(u, HttpWww))
                 => code = 3 /\ data = Utf8After(u, 7)
           /\ (StartsWith(u, Https) /\ ~StartsWith(u, HttpsWww))
                 => code = 4 /\ data = Utf8After(u, 8)
           /\ (~StartsWith(u, Http) /\ ~StartsWith(u, Https))
                 => code = 0 /\ data = Utf8Encode(u)
           /\ NFCEmulator_build_ndef_uri_record(u) = rec[1]

\* C15 witness: the record built for 'https://www.a': code 2, suffix 'a'.
C15_Witness ==
    /\ rec # None /\ url = Some(HttpsWww \o <<97>>)
    /\ StartsWith(url[1], Https)
    /\ RecordCode(rec[1]) = 2 /\ RecordData(rec[1]) = <<97>>

=============================================================================
